---- MODULE Spec2Model ----
(***************************************************************************)
(* Session engine of codesmith: the two session managers                   *)
(* (session_manager.SessionManager over PTY transports and                 *)
(* stream_session_manager.StreamSessionManager over per-message            *)
(* subprocesses), their background sweep, and the streaming transport      *)
(* stream_handler.StreamSession with its per-request background tasks.     *)
(*                                                                         *)
(* Scheduling is asyncio's: one thread, a coroutine runs without           *)
(* interruption from one await that suspends to the next.  Every action    *)
(* below is one such uninterrupted stretch of one coroutine.  Child        *)
(* processes and the clock run outside the event loop (ProcExit,           *)
(* ProcCloseStdout, Tick).                                                 *)
(***************************************************************************)
EXTENDS Integers, Sequences, FiniteSets, TLC

\* ---- bounds --------------------------------------------------------------
Users == {"A"}               \* user ids of Spec
MaxSessions == 2             \* session objects created over a run of Spec
MaxTasks == 2                \* _process_message tasks created over a run of Spec
MaxCalls == 1                \* manager calls suspended at the same time in Spec

UsersTwo == {"A", "B"}       \* the same for SpecTwo: two users, one request
MaxSessionsTwo == 3
MaxTasksTwo == 1
MaxCallsTwo == 1

UsersSmall == {"A"}          \* the same for SpecSmall: one user, one request
MaxSessionsSmall == 1
MaxTasksSmall == 1
MaxCallsSmall == 1

UsersFair == {"A"}           \* the same for FairSpec: one user, one request
MaxSessionsFair == 2
MaxTasksFair == 1
MaxCallsFair == 1

UsersStop == {"A", "B"}      \* the same for SpecStop: two users, one request
MaxSessionsStop == 2
MaxTasksStop == 1
MaxCallsStop == 1

MaxAtoms == 6                \* pieces a text given to chunk_for_discord is built from
MaxLimit == 9                \* largest limit given to chunk_for_discord
MaxChunks == 4               \* chunks followed in one call

MaxContent == 3              \* characters on the screen of an OutputBuffer
MaxFeeds == 3                \* feeds of one OutputBuffer

MaxRowAtoms == 3             \* pieces a row of the screen is built from
MaxRows == 2                 \* rows of the screen

MaxPtyCalls == 3             \* calls made on one PTYSession
MaxBuilds == 3               \* calls of the sandbox builder
MaxItems == 3                \* outputs the PTY bot's callback enqueues
MaxText == 2                 \* characters of the text of one event fed to a formatter
FlushThreshold == 3          \* StreamBuffer.flush_threshold (500 in the code), scaled
MaxLines == 2                \* lines one child of a StreamSession writes to stdout
MaxRequests == 2             \* requests made of one StreamSession
MaxArrivals == 2             \* pieces of output the child of one PTYSession writes

MaxEvents == 2               \* events of one request
MaxPerCall == 2              \* chunks handed to the callback in one invocation

\* ---- program constants ----------------------------------------------------
SESSION_TIMEOUT == 3600      \* config.SESSION_TIMEOUT, seconds

None == 0                    \* Python's None, as an object id
NoUser == "-"
AuthMethod == {"oauth", "api_key", "none"}      \* auth.AuthMethod

VARIABLES
    mode,        \* __main__: "pty" (bot.py) or "stream" (stream_bot.py)
    sessions,    \* manager._sessions : user -> session object id (None = absent)
    callbacks,   \* manager._output_callbacks : user -> registered?
    ptys,        \* UserSession/PTYSession objects, by id
    streams,     \* UserStreamSession/StreamSession objects, by id
    tasks,       \* _process_message tasks, by id; tasks[t].proc is the child t spawned
    calls,       \* manager coroutines suspended inside StreamSession.cancel
    sweep,       \* the _cleanup_loop task, and the stop() that has cancelled it
    last,        \* the manager call that returned in the step leading here
    workspace,   \* config.get_user_workspace(user): user -> the directory exists
    chunker,     \* a call of output_parser.chunk_for_discord: arguments and locals
    buffer,      \* an output_parser.OutputBuffer with its TerminalEmulator
    request,     \* one run of StreamSessionManager._process_message
    sends,       \* the send_chunks tasks the stream bot's callback has created
    channel,     \* the messages posted to the user's channel, in order
    emulator,    \* an output_parser.TerminalEmulator: its screen
    pty,         \* a pty_handler.PTYSession
    stream,      \* a stream_handler.StreamSession with the child of its request
    formatter,   \* a stream_parser.StreamOutputFormatter with its StreamBuffer
    sandbox,     \* the host as sandbox_runner's builder finds and leaves it
    bot          \* the PTY bot's output queue of one user and its consumer task

\* the session engine
engineVars == <<mode, sessions, callbacks, ptys, streams, tasks, calls, sweep, last, workspace>>

\* the text pipeline, which the session engine does not touch
outputVars == <<chunker, buffer, request, sends, channel, emulator, pty, stream, formatter,
                sandbox, bot>>

\* the objects followed one at a time, outside the session engine
unitVars == <<emulator, pty, stream, formatter, sandbox, bot>>

vars == <<mode, sessions, callbacks, ptys, streams, tasks, calls, sweep, last, workspace,
          chunker, buffer, request, sends, channel, emulator, pty, stream, formatter,
          sandbox, bot>>

\* the result of a manager call: noauth says that start_session was given
\* AuthMethod.NONE, sess is the session object it returned, proc the child
\* cancel_request terminated
NoLast == [op |-> "none", user |-> NoUser, noauth |-> FALSE, res |-> "-", sess |-> None, proc |-> None]
Ret(op, u, res) == [NoLast EXCEPT !.op = op, !.user = u, !.res = res]

IdleCall == [op |-> "idle", user |-> NoUser, sess |-> None, on |-> None]
SweepAt(pc) == [pc |-> pc, todo |-> << >>, user |-> NoUser, sess |-> None, on |-> None]

\* object slots not yet handed out by a constructor
FreeStream == [user |-> NoUser, process |-> None, current_task |-> None, idle |-> 0]
FreePty == [user |-> NoUser, alive |-> FALSE, fd |-> FALSE, idle |-> 0]
FreeTask == [user |-> NoUser, sess |-> None, pc |-> "free", cancelReq |-> FALSE,
             on |-> None, proc |-> "none"]

Lowest(S) == CHOOSE x \in S : \A y \in S : x <= y

UserIds == DOMAIN sessions
TaskIds == {t \in DOMAIN tasks : tasks[t].pc # "free"}
FreeTasks == DOMAIN tasks \ TaskIds
FreeStreams == {s \in DOMAIN streams : streams[s].user = NoUser}
FreePtys == {s \in DOMAIN ptys : ptys[s].user = NoUser}
IdleCalls == {c \in DOMAIN calls : calls[c] = IdleCall}

\* no call of chunk_for_discord is under way
NoChunker == [pc |-> "idle", text |-> << >>, limit |-> 0, remaining |-> << >>,
              chunks |-> << >>, before |-> << >>, split_point |-> 0, closed |-> << >>]

\* OutputBuffer(): nothing fed, an empty screen.  screen is what
\* TerminalEmulator.get_content() returns, before what it returned at the feed
\* before the last one, content the delta the last feed returned.
NewBuffer == [_last_content |-> << >>, screen |-> << >>, before |-> << >>,
              content |-> << >>, fed |-> 0]

\* no _process_message is followed.  cb: a callback was registered when the
\* run began; events: the events handled; produced: the pieces of output
\* (non-empty chunk lists) it came to hold; offered: the callback invocations
\* made for them; raised: one of these invocations raised; stopped:
\* stop_session has returned for the user of the run
NoRequest == [pc |-> "idle", cb |-> FALSE, events |-> 0, produced |-> 0, offered |-> 0,
              raised |-> FALSE, stopped |-> FALSE]

\* no TerminalEmulator is followed
NoEmulator == [pc |-> "idle", display |-> << >>, statusbar |-> << >>]

\* no PTYSession is followed.  pc: "idle", "live" (constructed), "deleted".
\* master_fd is -1 or the descriptor; child is the state of the process Popen
\* has forked: "none", "running", "exited" or "killed"; opened says that
\* openpty() has been called, closes counts the os.close(master_fd) made, sent
\* the os.write made, last_activity the assignments to the field; writing says
\* that a write() is suspended in the executor; n, op, at and res are the
\* number of calls made, the last one, the state it found and its outcome,
\* wat and wres the same of the last write().  gen is the place of the
\* read_stream generator: "none", "test" (at `while self.is_alive()`),
\* "select" (inside read()), "yield", "ended", "raised"; buf holds the pieces
\* of output waiting in the terminal, out those yielded, arrived counts those
\* written; idle is the time since idle_start and quiet the time since the
\* last piece arrived or the stream began, both in units of idle_timeout and
\* not counted beyond IdleTimeout + 1.
NoPty == [pc |-> "idle", master_fd |-> -1, process |-> "None", child |-> "none",
          opened |-> FALSE, closes |-> 0, sent |-> 0, last_activity |-> 0,
          writing |-> FALSE, n |-> 0, op |-> "-", at |-> "-", res |-> "-",
          wat |-> "-", wres |-> "-",
          gen |-> "none", buf |-> << >>, out |-> << >>, arrived |-> 0,
          idle |-> 0, quiet |-> 0, loop |-> "none", age |-> 0]

\* no StreamSession is followed
NoStream ==
    [pc |-> "idle", process |-> "None", session_id |-> << >>,
     total_input_tokens |-> 0, total_output_tokens |-> 0, total_cost_usd |-> 0,
     n |-> 0, cmd |-> << >>, stdout |-> << >>, pos |-> 0, yielded |-> << >>,
     received |-> [input_tokens |-> 0, output_tokens |-> 0, cost_usd |-> 0,
                   session_id |-> << >>]]

\* no StreamOutputFormatter is followed
NoFormatter ==
    [pc |-> "idle", _content_buffer |-> << >>, _is_streaming |-> FALSE,
     status |-> [model |-> << >>, input_tokens |-> 0, output_tokens |-> 0,
                 cost_usd |-> 0, session_id |-> << >>],
     op |-> "-", event |-> << >>, before |-> << >>, content |-> << >>, chunks |-> << >>]

\* none of the single objects is followed
NoSandbox ==
    [pc |-> "idle", dirs |-> {}, npm_lib |-> FALSE, spawned |-> 0, n |-> 0,
     op |-> "-", user |-> "-", cmd |-> << >>]

\* no session of the PTY bot is followed.  queue: _output_queues[user_id], the
\* items the callback has put and the task has not taken, each the number of
\* the item and whether its parsed.content is non-empty; buffer: the local
\* `buffer` of _process_output_queue, as the numbers of the items whose content
\* it holds; recent: no more than 1.0 s have passed since last_send; sent: the
\* contents handed to _send_output; n: the items put so far.
NoBot == [pc |-> "idle", queue |-> << >>, buffer |-> << >>, recent |-> TRUE,
          sent |-> << >>, n |-> 0]

UnitIdle ==
    /\ sandbox = NoSandbox
    /\ bot = NoBot
    /\ emulator = NoEmulator
    /\ pty = NoPty
    /\ stream = NoStream
    /\ formatter = NoFormatter

\* the text pipeline is at rest
OutputIdle ==
    /\ UnitIdle
    /\ chunker = NoChunker
    /\ buffer = NewBuffer
    /\ request = NoRequest
    /\ sends = << >>
    /\ channel = << >>

\* ---- child processes ---------------------------------------------------------
\* tasks[t].proc: "none" (t has spawned nothing), "running", "eof" (the child
\* has closed its stdout and runs on), "killed" (SIGKILL sent, pipes closed,
\* not reaped yet), "exited" (reaped: returncode set, pipes closed).

\* process.returncode is None
Unreaped(ts, p) == ts[p].proc \in {"running", "eof", "killed"}

\* process.stdout is at end of file
StdoutEOF(ts, p) == ts[p].proc \in {"eof", "killed", "exited"}

\* process.stderr is at end of file
StderrEOF(ts, p) == ts[p].proc \in {"killed", "exited"}

\* ---- StreamSession ---------------------------------------------------------

\* StreamSession.is_busy: process is not None and process.returncode is None
is_busy(ss, ts, s) ==
    /\ ss[s].process # None
    /\ Unreaped(ts, ss[s].process)

\* UserStreamSession.is_expired / UserSession.is_expired
is_expired(ss, s) == ss[s].idle > SESSION_TIMEOUT

\* the `finally: self.process = None` of StreamSession.send_message, reached
\* with an exception: _process_message reports it through the callback
Fail(ss, ts, t) ==
    [ss |-> [ss EXCEPT ![ts[t].sess].process = None],
     ts |-> [ts EXCEPT ![t].pc = "done", ![t].on = None]]

\* the same `finally`, reached when _read_events is exhausted; then the flush
Complete(ss, ts, t) ==
    [ss |-> [ss EXCEPT ![ts[t].sess].process = None],
     ts |-> [ts EXCEPT ![t].pc = "done", ![t].on = None]]

\* _read_events, `if self.process.stderr: stderr = await self.process.stderr.read()`
AtStderr(ss, ts, t) ==
    LET cur == ss[ts[t].sess].process IN
    IF cur = None THEN Fail(ss, ts, t)                       \* AttributeError
    ELSE IF StderrEOF(ts, cur) THEN Complete(ss, ts, t)      \* at EOF already
    ELSE IF \E t2 \in DOMAIN ts : t2 # t /\ ts[t2].pc = "stderr" /\ ts[t2].on = cur
         THEN Fail(ss, ts, t)                                \* second reader: RuntimeError
    ELSE [ss |-> ss, ts |-> [ts EXCEPT ![t].pc = "stderr", ![t].on = cur]]

\* _read_events, `await self.process.wait()` after the read loop
AtWait(ss, ts, t) ==
    LET cur == ss[ts[t].sess].process IN
    IF cur = None THEN Fail(ss, ts, t)                       \* AttributeError
    ELSE IF ts[cur].proc = "exited" THEN AtStderr(ss, ts, t)  \* returns at once
    ELSE [ss |-> ss, ts |-> [ts EXCEPT ![t].pc = "waiting", ![t].on = cur]]

\* _read_events, head of the loop: `chunk = await self.process.stdout.read(4096)`
\* inside `try ... except Exception: break`
AtRead(ss, ts, t) ==
    LET cur == ss[ts[t].sess].process IN
    IF cur = None THEN AtWait(ss, ts, t)                     \* AttributeError -> break
    ELSE IF StdoutEOF(ts, cur) THEN AtWait(ss, ts, t)        \* b"" -> break
    ELSE IF \E t2 \in DOMAIN ts : t2 # t /\ ts[t2].pc = "reading" /\ ts[t2].on = cur
         THEN AtWait(ss, ts, t)                              \* second reader: RuntimeError -> break
    ELSE [ss |-> ss, ts |-> [ts EXCEPT ![t].pc = "reading", ![t].on = cur]]

\* StreamSession.cancel, up to `await asyncio.wait_for(self.process.wait(), 5.0)`:
\* the process it terminates and then waits for (None: nothing to cancel)
CancelTarget(ss, ts, s) == IF is_busy(ss, ts, s) THEN ss[s].process ELSE None

\* StreamSession.cancel, from the wait on: p is the process waited for.
\* p was reaped within the grace period: self.process = None.  Otherwise
\* TimeoutError: self.process.kill() on whatever self.process is now, which
\* raises AttributeError on None and ProcessLookupError on a reaped process
\* whose transport is closed (lost), and is a no-op on one whose is not.
CancelResume(ss, ts, s, p, lost) ==
    LET cur == ss[s].process IN
    IF ts[p].proc = "exited"
    THEN [ss |-> [ss EXCEPT ![s].process = None], ts |-> ts, raised |-> FALSE]
    ELSE IF cur = None
    THEN [ss |-> ss, ts |-> ts, raised |-> TRUE]
    ELSE IF ts[cur].proc = "exited"
    THEN [ss |-> IF lost THEN ss ELSE [ss EXCEPT ![s].process = None],
          ts |-> ts, raised |-> lost]
    ELSE [ss |-> [ss EXCEPT ![s].process = None],
          ts |-> [ts EXCEPT ![cur].proc = "killed"], raised |-> FALSE]

\* task.cancel(): no effect on a task that is done
CancelTask(ts, t) == IF ts[t].pc = "done" THEN ts ELSE [ts EXCEPT ![t].cancelReq = TRUE]

\* ---- sandbox_runner ---------------------------------------------------------

\* def setup_sandbox(user_id): the number of parameters it declares
SetupSandboxParams == 1

\* a call of setup_sandbox with nargs positional arguments
setup_sandbox(nargs) == IF nargs = SetupSandboxParams THEN "ok" ELSE "TypeError"

\* config.ensure_workspace: workspace.mkdir(parents=True, exist_ok=True)
ensure_workspace(ws, u) == [ws EXCEPT ![u] = TRUE]

\* cleanup_sandbox(user_id, remove_workspace): rmtree of the workspace when
\* asked to, otherwise of its tmp subdirectory only
cleanup_sandbox(ws, u, remove_workspace) ==
    IF remove_workspace /\ ws[u] THEN [ws EXCEPT ![u] = FALSE] ELSE ws

\* ---- PTYSession -------------------------------------------------------------

\* PTYSession.is_alive
is_alive(ps, s) == ps[s].alive

\* create_pty_session + UserSession(...)
NewUserSession(u) == [user |-> u, alive |-> TRUE, fd |-> TRUE, idle |-> 0]

\* create_stream_session + UserStreamSession(...)
NewStreamSession(u) == [FreeStream EXCEPT !.user = u]

\* asyncio.create_task(self._process_message(user_id, message))
NewTask(u) == [FreeTask EXCEPT !.user = u, !.pc = "new"]

\* ---- Init -------------------------------------------------------------------

\* the managers as constructed, with room for maxS session objects, maxT tasks
\* and maxC suspended calls
InitB(users, maxS, maxT, maxC) ==
    /\ mode \in {"pty", "stream"}
    /\ sessions = [u \in users |-> None]
    /\ callbacks = [u \in users |-> FALSE]
    /\ ptys = [s \in 1..maxS |-> FreePty]
    /\ streams = [s \in 1..maxS |-> FreeStream]
    /\ tasks = [t \in 1..maxT |-> FreeTask]
    /\ calls = [c \in 1..maxC |-> IdleCall]
    /\ sweep = SweepAt("off")
    /\ last = NoLast
    /\ workspace \in [users -> BOOLEAN]     \* kept from earlier runs of the bot, or not
    /\ OutputIdle

Init == InitB(Users, MaxSessions, MaxTasks, MaxCalls)

InitTwo == InitB(UsersTwo, MaxSessionsTwo, MaxTasksTwo, MaxCallsTwo)

InitSmall == InitB(UsersSmall, MaxSessionsSmall, MaxTasksSmall, MaxCallsSmall)

InitFair == InitB(UsersFair, MaxSessionsFair, MaxTasksFair, MaxCallsFair)

\* ---- both managers -----------------------------------------------------------

\* SessionManager.start / StreamSessionManager.start (the bots' setup_hook)
ManagerStart ==
    /\ sweep.pc = "off"
    /\ sweep' = SweepAt("sleep")
    /\ last' = NoLast
    /\ UNCHANGED <<outputVars, workspace, mode, sessions, callbacks, ptys, streams, tasks, calls>>

\* set_output_callback
SetOutputCallback(u) ==
    /\ sweep.pc # "off"
    /\ sessions[u] # None            \* the bots register it right after start_session
    /\ ~callbacks[u]
    /\ callbacks' = [callbacks EXCEPT ![u] = TRUE]
    /\ last' = NoLast
    /\ UNCHANGED <<outputVars, workspace, mode, sessions, ptys, streams, tasks, calls, sweep>>

\* Nothing is pending that the event loop, the kernel or a 5 s grace period
\* ends within seconds: no task waits for its first step, for its child to be
\* forked or for a CancelledError, no child waits to be reaped after SIGKILL,
\* and no coroutine waits inside stream.cancel().
Quiet ==
    /\ \A t \in TaskIds : /\ tasks[t].pc \notin {"new", "spawning"}
                          /\ tasks[t].cancelReq => tasks[t].pc = "done"
                          /\ tasks[t].proc # "killed"
    /\ IdleCalls = DOMAIN calls
    /\ sweep.pc # "await"

\* the clock: nothing has touched the session of u for longer than
\* SESSION_TIMEOUT (shorter idle times are not observable by the program)
Tick(u) ==
    /\ sessions[u] # None
    /\ Quiet
    /\ IF mode = "stream"
       THEN /\ ~is_expired(streams, sessions[u])
            /\ streams' = [streams EXCEPT ![sessions[u]].idle = SESSION_TIMEOUT + 1]
            /\ UNCHANGED ptys
       ELSE /\ ~is_expired(ptys, sessions[u])
            /\ ptys' = [ptys EXCEPT ![sessions[u]].idle = SESSION_TIMEOUT + 1]
            /\ UNCHANGED streams
    /\ last' = NoLast
    /\ UNCHANGED <<outputVars, workspace, mode, sessions, callbacks, tasks, calls, sweep>>

\* ---- SessionManager (PTY) ----------------------------------------------------

\* SessionManager.start_session.  The table never holds a session when it is
\* called (no call gets past setup_sandbox), so its stop_session is not entered.
PtyStartSession(u, auth) ==
    /\ mode = "pty" /\ sweep.pc # "off"
    /\ sessions[u] = None
    /\ IF auth = "none"
       THEN /\ last' = [Ret("start_session", u, "AuthError") EXCEPT !.noauth = (auth = "none")]
            /\ UNCHANGED <<sessions, ptys, workspace>>
       ELSE IF setup_sandbox(2) # "ok"       \* setup_sandbox(user_id, auth_method)
       THEN /\ last' = [Ret("start_session", u, "TypeError") EXCEPT !.noauth = (auth = "none")]
            /\ UNCHANGED <<sessions, ptys, workspace>>
       ELSE /\ FreePtys # {}
            /\ workspace' = ensure_workspace(workspace, u)    \* in setup_sandbox
            /\ ptys' = [ptys EXCEPT ![Lowest(FreePtys)] = NewUserSession(u)]
            /\ sessions' = [sessions EXCEPT ![u] = Lowest(FreePtys)]
            /\ last' = [Ret("start_session", u, "ok") EXCEPT !.noauth = (auth = "none"),
                                                             !.sess = Lowest(FreePtys)]
    /\ UNCHANGED <<outputVars, mode, callbacks, streams, tasks, calls, sweep>>

\* SessionManager.stop_session.  With a table entry: the transport is
\* terminated and cleanup_sandbox(user_id, remove_workspace=False) is called.
PtyStopSession(u) ==
    /\ mode = "pty" /\ sweep.pc # "off"
    /\ LET s == sessions[u] IN
       IF s = None
       THEN /\ last' = Ret("stop_session", u, "ok")
            /\ UNCHANGED <<sessions, ptys, workspace>>
       ELSE /\ sessions' = [sessions EXCEPT ![u] = None]
            /\ ptys' = [ptys EXCEPT ![s].alive = FALSE, ![s].fd = FALSE]
            /\ workspace' = cleanup_sandbox(workspace, u, FALSE)
            /\ last' = [Ret("stop_session", u, "ok") EXCEPT !.sess = s]
    /\ callbacks' = [callbacks EXCEPT ![u] = FALSE]
    /\ UNCHANGED <<outputVars, mode, streams, tasks, calls, sweep>>

\* SessionManager.send_input / send_slash_command: get_session, then
\* UserSession.send_input -> PTYSession.write_line -> write, which polls the
\* child again (it may have exited since get_session polled it)
PtySendInput(u, op) ==
    /\ mode = "pty" /\ sweep.pc # "off"
    /\ LET s == sessions[u] IN
       IF s = None
       THEN /\ last' = Ret(op, u, "False")
            /\ UNCHANGED ptys
       ELSE IF ~is_alive(ptys, s)
       THEN /\ last' = Ret(op, u, "False")
            /\ UNCHANGED ptys
       ELSE \E exits \in BOOLEAN :
            IF exits
            THEN /\ ptys' = [ptys EXCEPT ![s].alive = FALSE]
                 /\ last' = [Ret(op, u, "raised") EXCEPT !.sess = s]   \* RuntimeError
            ELSE /\ ptys' = [ptys EXCEPT ![s].idle = 0]
                 /\ last' = [Ret(op, u, "True") EXCEPT !.sess = s]
    /\ UNCHANGED <<outputVars, workspace, mode, sessions, callbacks, streams, tasks, calls, sweep>>

\* ---- StreamSessionManager -----------------------------------------------------

\* StreamSessionManager.start_session with the early return moved behind a
\* teardown: the existing session is taken out of the table before it is returned
StreamStartSession_StopsExisting(u, auth) ==
    /\ mode = "stream" /\ sweep.pc # "off"
    /\ IF sessions[u] # None
       THEN /\ last' = [Ret("start_session", u, "ok") EXCEPT !.noauth = (auth = "none"),
                                                             !.sess = sessions[u]]
            /\ sessions' = [sessions EXCEPT ![u] = None]
            /\ UNCHANGED <<streams, workspace>>
       ELSE IF auth = "none"
       THEN /\ last' = [Ret("start_session", u, "AuthError") EXCEPT !.noauth = (auth = "none")]
            /\ UNCHANGED <<sessions, streams, workspace>>
       ELSE /\ FreeStreams # {}
            /\ streams' = [streams EXCEPT ![Lowest(FreeStreams)] = NewStreamSession(u)]
            /\ sessions' = [sessions EXCEPT ![u] = Lowest(FreeStreams)]
            /\ workspace' = ensure_workspace(workspace, u)    \* create_stream_session
            /\ last' = [Ret("start_session", u, "ok") EXCEPT !.noauth = (auth = "none"),
                                                             !.sess = Lowest(FreeStreams)]
    /\ UNCHANGED <<outputVars, mode, callbacks, ptys, tasks, calls, sweep>>

\* StreamSessionManager.start_session without `if auth_method == AuthMethod.NONE: raise`
StreamStartSession_NoAuthCheck(u, auth) ==
    /\ mode = "stream" /\ sweep.pc # "off"
    /\ IF sessions[u] # None
       THEN /\ last' = [Ret("start_session", u, "ok") EXCEPT !.noauth = (auth = "none"),
                                                             !.sess = sessions[u]]
            /\ UNCHANGED <<sessions, streams, workspace>>
       ELSE /\ FreeStreams # {}
            /\ streams' = [streams EXCEPT ![Lowest(FreeStreams)] = NewStreamSession(u)]
            /\ sessions' = [sessions EXCEPT ![u] = Lowest(FreeStreams)]
            /\ workspace' = ensure_workspace(workspace, u)    \* create_stream_session
            /\ last' = [Ret("start_session", u, "ok") EXCEPT !.noauth = (auth = "none"),
                                                             !.sess = Lowest(FreeStreams)]
    /\ UNCHANGED <<outputVars, mode, callbacks, ptys, tasks, calls, sweep>>

\* StreamSessionManager.start_session
StreamStartSession(u, auth) ==
    /\ mode = "stream" /\ sweep.pc # "off"
    /\ IF sessions[u] # None
       THEN /\ last' = [Ret("start_session", u, "ok") EXCEPT !.noauth = (auth = "none"),
                                                             !.sess = sessions[u]]
            /\ UNCHANGED <<sessions, streams, workspace>>
       ELSE IF auth = "none"
       THEN /\ last' = [Ret("start_session", u, "AuthError") EXCEPT !.noauth = (auth = "none")]
            /\ UNCHANGED <<sessions, streams, workspace>>
       ELSE /\ FreeStreams # {}
            /\ streams' = [streams EXCEPT ![Lowest(FreeStreams)] = NewStreamSession(u)]
            /\ sessions' = [sessions EXCEPT ![u] = Lowest(FreeStreams)]
            /\ workspace' = ensure_workspace(workspace, u)    \* create_stream_session
            /\ last' = [Ret("start_session", u, "ok") EXCEPT !.noauth = (auth = "none"),
                                                             !.sess = Lowest(FreeStreams)]
    /\ UNCHANGED <<outputVars, mode, callbacks, ptys, tasks, calls, sweep>>

\* StreamSessionManager.stop_session with a cleanup_sandbox(user_id,
\* remove_workspace=True) for the session it has popped
StreamStopSession_RemovesWorkspace(u) ==
    /\ mode = "stream" /\ sweep.pc # "off"
    /\ LET s == sessions[u]
           p == IF s = None THEN None ELSE CancelTarget(streams, tasks, s) IN
       /\ sessions' = [sessions EXCEPT ![u] = None]
       /\ workspace' = IF s = None THEN workspace ELSE cleanup_sandbox(workspace, u, TRUE)
       /\ IF p # None
          THEN /\ IdleCalls # {}
               /\ calls' = [calls EXCEPT ![Lowest(IdleCalls)] =
                              [op |-> "stop_session", user |-> u, sess |-> s, on |-> p]]
               /\ last' = NoLast
               /\ UNCHANGED callbacks
          ELSE /\ callbacks' = [callbacks EXCEPT ![u] = FALSE]
               /\ last' = [Ret("stop_session", u, "ok") EXCEPT !.sess = s]
               /\ UNCHANGED calls
    /\ UNCHANGED <<outputVars, mode, ptys, streams, tasks, sweep>>

\* StreamSessionManager.stop_session, up to the wait inside stream.cancel()
StreamStopSession(u) ==
    /\ mode = "stream" /\ sweep.pc # "off"
    /\ LET s == sessions[u]
           p == IF s = None THEN None ELSE CancelTarget(streams, tasks, s) IN
       /\ sessions' = [sessions EXCEPT ![u] = None]
       /\ IF p # None
          THEN /\ IdleCalls # {}
               /\ calls' = [calls EXCEPT ![Lowest(IdleCalls)] =
                              [op |-> "stop_session", user |-> u, sess |-> s, on |-> p]]
               /\ last' = NoLast
               /\ UNCHANGED callbacks
          ELSE /\ callbacks' = [callbacks EXCEPT ![u] = FALSE]
               /\ last' = [Ret("stop_session", u, "ok") EXCEPT !.sess = s]
               /\ UNCHANGED calls
    /\ UNCHANGED <<outputVars, workspace, mode, ptys, streams, tasks, sweep>>

\* StreamSessionManager.send_message.  raises: the registered callback raises
\* when it is handed the busy notice.
SendMessage(u, raises) ==
    /\ mode = "stream" /\ sweep.pc # "off"
    /\ LET s == sessions[u] IN
       IF s = None
       THEN /\ ~raises
            /\ last' = Ret("send_message", u, "False")
            /\ UNCHANGED <<streams, tasks>>
       ELSE IF is_busy(streams, tasks, s)
       THEN /\ raises => callbacks[u]
            /\ last' = [Ret("send_message", u, IF raises THEN "raised" ELSE "False")
                          EXCEPT !.sess = s]
            /\ UNCHANGED <<streams, tasks>>
       ELSE /\ ~raises
            /\ FreeTasks # {}
            /\ tasks' = [tasks EXCEPT ![Lowest(FreeTasks)] = NewTask(u)]
            /\ streams' = [streams EXCEPT ![s].current_task = Lowest(FreeTasks)]
            /\ last' = [Ret("send_message", u, "True") EXCEPT !.sess = s]
    /\ UNCHANGED <<outputVars, workspace, mode, sessions, callbacks, ptys, calls, sweep>>

\* StreamSessionManager.cancel_request, up to the wait inside stream.cancel()
CancelRequest(u) ==
    /\ mode = "stream" /\ sweep.pc # "off"
    /\ LET s == sessions[u] IN
       IF s = None
       THEN /\ last' = Ret("cancel_request", u, "False")
            /\ UNCHANGED calls
       ELSE IF ~is_busy(streams, tasks, s)
       THEN /\ last' = [Ret("cancel_request", u, "False") EXCEPT !.sess = s]
            /\ UNCHANGED calls
       ELSE /\ IdleCalls # {}
            /\ calls' = [calls EXCEPT ![Lowest(IdleCalls)] =
                           [op |-> "cancel_request", user |-> u, sess |-> s,
                            on |-> CancelTarget(streams, tasks, s)]]
            /\ last' = NoLast
    /\ UNCHANGED <<outputVars, workspace, mode, sessions, callbacks, ptys, streams, tasks, sweep>>

\* stop_session / cancel_request resumed from the wait inside stream.cancel()
CallResume(c, lost) ==
    /\ calls[c] # IdleCall
    /\ LET s == calls[c].sess
           u == calls[c].user
           r == CancelResume(streams, tasks, s, calls[c].on, lost)
           ct == r.ss[s].current_task IN
       IF r.raised
       THEN /\ last' = [Ret(calls[c].op, u, "raised") EXCEPT !.sess = s, !.proc = calls[c].on]
            /\ UNCHANGED <<streams, tasks, callbacks>>
       ELSE IF calls[c].op = "stop_session"
       THEN /\ streams' = r.ss
            /\ tasks' = r.ts
            /\ callbacks' = [callbacks EXCEPT ![u] = FALSE]
            /\ last' = [Ret("stop_session", u, "ok") EXCEPT !.sess = s]
       ELSE /\ streams' = IF ct = None THEN r.ss ELSE [r.ss EXCEPT ![s].current_task = None]
            /\ tasks' = IF ct = None THEN r.ts ELSE CancelTask(r.ts, ct)
            /\ last' = [Ret("cancel_request", u, "True") EXCEPT !.sess = s, !.proc = calls[c].on]
            /\ UNCHANGED callbacks
    /\ calls' = [calls EXCEPT ![c] = IdleCall]
    /\ UNCHANGED <<outputVars, workspace, mode, sessions, ptys, sweep>>

\* ---- the sweep ---------------------------------------------------------------

\* _cleanup_loop: the users it collects.  SessionManager also collects dead ones.
Expired ==
    {u \in UserIds : /\ sessions[u] # None
                     /\ IF mode = "stream"
                        THEN is_expired(streams, sessions[u])
                        ELSE is_expired(ptys, sessions[u]) \/ ~is_alive(ptys, sessions[u])}

\* the orders in which a list built from a set can hold its elements
Orders(S) ==
    {q \in [1..Cardinality(S) -> S] : \A i, j \in 1..Cardinality(S) : i # j => q[i] # q[j]}

\* _cleanup_loop, `for user_id in expired: await self.stop_session(user_id)`:
\* runs stop_session for the users of todo until one suspends in stream.cancel()
RECURSIVE SweepAdvance(_, _, _, _, _)
SweepAdvance(tbl, cbs, ss, ts, todo) ==
    IF todo = << >>
    THEN [tbl |-> tbl, cbs |-> cbs, sweep |-> SweepAt("sleep")]
    ELSE LET u == Head(todo)
             s == tbl[u]
             p == IF s = None THEN None ELSE CancelTarget(ss, ts, s)
             tbl1 == [tbl EXCEPT ![u] = None] IN
         IF p # None
         THEN [tbl |-> tbl1, cbs |-> cbs,
               sweep |-> [pc |-> "await", todo |-> Tail(todo), user |-> u, sess |-> s, on |-> p]]
         ELSE SweepAdvance(tbl1, [cbs EXCEPT ![u] = FALSE], ss, ts, Tail(todo))

\* _cleanup_loop wakes from sleep(60), collects and starts stopping
SweepWake ==
    /\ sweep.pc = "sleep"
    /\ Expired # {}
    /\ \E order \in Orders(Expired) :
         LET r == SweepAdvance(sessions, callbacks, streams, tasks, order) IN
         /\ sessions' = r.tbl
         /\ callbacks' = r.cbs
         /\ sweep' = r.sweep
    /\ last' = NoLast
    /\ UNCHANGED <<outputVars, workspace, mode, ptys, streams, tasks, calls>>

\* _cleanup_loop resumed from the wait inside stream.cancel(); an exception
\* raised there leaves stop_session and ends the loop
SweepResume(lost) ==
    /\ sweep.pc = "await"
    /\ LET r == CancelResume(streams, tasks, sweep.sess, sweep.on, lost) IN
       IF r.raised
       THEN /\ sweep' = SweepAt("dead")
            /\ UNCHANGED <<sessions, callbacks, streams, tasks>>
       ELSE LET n == SweepAdvance(sessions, [callbacks EXCEPT ![sweep.user] = FALSE],
                                  r.ss, r.ts, sweep.todo) IN
            /\ streams' = r.ss
            /\ tasks' = r.ts
            /\ sessions' = n.tbl
            /\ callbacks' = n.cbs
            /\ sweep' = n.sweep
    /\ last' = NoLast
    /\ UNCHANGED <<outputVars, workspace, mode, ptys, calls>>

\* ---- stop() of both managers ---------------------------------------------------

\* the users with a table entry
InTable == {u \in UserIds : sessions[u] # None}

\* the place of u in the list order
Position(order, u) == CHOOSE i \in DOMAIN order : order[i] = u

\* StreamSessionManager.stop, `for session in self._sessions.values(): await
\* session.stream.cancel()` from the i-th entry on: the loop runs until a
\* cancel() suspends (pc "stopping", with the order of the whole iteration in
\* todo) or the entries are exhausted (pc "stopped").  cancel() on a session
\* that is not busy does nothing.
RECURSIVE StopAdvance(_, _, _, _, _)
StopAdvance(tbl, ss, ts, order, i) ==
    IF i > Len(order)
    THEN SweepAt("stopped")
    ELSE LET u == order[i]
             s == tbl[u]
             p == IF s = None THEN None ELSE CancelTarget(ss, ts, s) IN
         IF p # None
         THEN [pc |-> "stopping", todo |-> order, user |-> u, sess |-> s, on |-> p]
         ELSE StopAdvance(tbl, ss, ts, order, i + 1)

\* SessionManager.stop / StreamSessionManager.stop (the bots' close), up to the
\* first wait inside stream.cancel().  The sweep task is cancelled and awaited:
\* asleep or inside stream.cancel() it ends with CancelledError, which is
\* caught; a sweep task that an exception has ended hands that exception to
\* stop(), which it leaves.  Then SessionManager stops the session of every
\* user in the table, StreamSessionManager cancels every session in the table
\* and clears the table and the callbacks.
ManagerStop ==
    /\ sweep.pc \in {"sleep", "await", "dead"}
    /\ IF sweep.pc = "dead"
       THEN /\ sweep' = SweepAt("stopped")
            /\ last' = Ret("stop", NoUser, "raised")
            /\ UNCHANGED <<sessions, callbacks, ptys, workspace>>
       ELSE IF mode = "pty"
       THEN /\ sweep' = SweepAt("stopped")
            /\ sessions' = [u \in UserIds |-> None]
            /\ callbacks' = [u \in UserIds |-> IF u \in InTable THEN FALSE ELSE callbacks[u]]
            /\ ptys' = [s \in DOMAIN ptys |->
                          IF \E u \in InTable : sessions[u] = s
                          THEN [ptys[s] EXCEPT !.alive = FALSE, !.fd = FALSE]
                          ELSE ptys[s]]
            /\ workspace' = [u \in UserIds |->
                               IF u \in InTable
                               THEN cleanup_sandbox(workspace, u, FALSE)[u]
                               ELSE workspace[u]]
            /\ last' = Ret("stop", NoUser, "ok")
       ELSE \E order \in Orders(InTable) :
              LET n == StopAdvance(sessions, streams, tasks, order, 1) IN
              /\ sweep' = n
              /\ IF n.pc = "stopped"
                 THEN /\ sessions' = [u \in UserIds |-> None]
                      /\ callbacks' = [u \in UserIds |-> FALSE]
                      /\ last' = Ret("stop", NoUser, "ok")
                 ELSE /\ last' = NoLast
                      /\ UNCHANGED <<sessions, callbacks>>
              /\ UNCHANGED <<ptys, workspace>>
    /\ UNCHANGED <<outputVars, mode, streams, tasks, calls>>

\* StreamSessionManager.stop resumed from the wait inside stream.cancel().  An
\* exception raised there leaves stop(); so does the RuntimeError of the
\* iterator when the table has another size than when the loop began.  With
\* the size it began with, the loop goes on with the entries of the users that
\* were behind the current one.
StopResume(lost) ==
    /\ sweep.pc = "stopping"
    /\ LET r == CancelResume(streams, tasks, sweep.sess, sweep.on, lost)
           n == StopAdvance(sessions, r.ss, r.ts, sweep.todo,
                            Position(sweep.todo, sweep.user) + 1) IN
       IF r.raised
       THEN /\ sweep' = SweepAt("stopped")
            /\ last' = Ret("stop", NoUser, "raised")
            /\ UNCHANGED <<sessions, callbacks, streams, tasks>>
       ELSE IF Cardinality(InTable) # Len(sweep.todo)
       THEN /\ sweep' = SweepAt("stopped")
            /\ last' = Ret("stop", NoUser, "raised")
            /\ streams' = r.ss
            /\ tasks' = r.ts
            /\ UNCHANGED <<sessions, callbacks>>
       ELSE /\ sweep' = n
            /\ streams' = r.ss
            /\ tasks' = r.ts
            /\ IF n.pc = "stopped"
               THEN /\ sessions' = [u \in UserIds |-> None]
                    /\ callbacks' = [u \in UserIds |-> FALSE]
                    /\ last' = Ret("stop", NoUser, "ok")
               ELSE /\ last' = NoLast
                    /\ UNCHANGED <<sessions, callbacks>>
    /\ UNCHANGED <<outputVars, workspace, mode, ptys, calls>>

\* ---- _process_message tasks -----------------------------------------------------

\* A task of the same session cancelled before t was created is stepped by the
\* event loop before t's first step (ready callbacks run in FIFO order).
RunsFirst(t) ==
    \E t2 \in TaskIds : /\ t2 < t
                        /\ tasks[t2].cancelReq
                        /\ tasks[t2].pc # "done"
                        /\ tasks[t2].sess = sessions[tasks[t].user]

\* _process_message up to `await asyncio.create_subprocess_exec(...)` in
\* StreamSession.send_message; the child is forked before the await suspends
TaskStart(t) ==
    /\ tasks[t].pc = "new" /\ ~tasks[t].cancelReq
    /\ ~RunsFirst(t)
    /\ LET s == sessions[tasks[t].user] IN
       tasks' = IF s = None
                THEN [tasks EXCEPT ![t].pc = "done"]
                ELSE IF is_busy(streams, tasks, s)      \* RuntimeError("Session is busy")
                THEN [tasks EXCEPT ![t].pc = "done", ![t].sess = s]
                ELSE [tasks EXCEPT ![t].pc = "spawning", ![t].sess = s, ![t].proc = "running"]
    /\ last' = NoLast
    /\ UNCHANGED <<outputVars, workspace, mode, sessions, callbacks, ptys, streams, calls, sweep>>

\* create_subprocess_exec returns: self.process = ..., last_activity = now,
\* then _read_events up to its first read
TaskSpawned(t) ==
    /\ tasks[t].pc = "spawning" /\ ~tasks[t].cancelReq
    /\ LET r == AtRead([streams EXCEPT ![tasks[t].sess].process = t,
                                       ![tasks[t].sess].idle = 0], tasks, t) IN
       /\ streams' = r.ss
       /\ tasks' = r.ts
    /\ last' = NoLast
    /\ UNCHANGED <<outputVars, workspace, mode, sessions, callbacks, ptys, calls, sweep>>

\* the read returns data: the event is handled (last_activity = now, callback)
\* and the loop reads again
TaskRead(t) ==
    /\ tasks[t].pc = "reading" /\ ~tasks[t].cancelReq
    /\ ~StdoutEOF(tasks, tasks[t].on)
    /\ LET r == AtRead([streams EXCEPT ![tasks[t].sess].idle = 0], tasks, t) IN
       /\ streams' = r.ss
       /\ tasks' = r.ts
    /\ last' = NoLast
    /\ UNCHANGED <<outputVars, workspace, mode, sessions, callbacks, ptys, calls, sweep>>

\* the read returns b"" (end of the child's stdout): break
TaskEOF(t) ==
    /\ tasks[t].pc = "reading" /\ ~tasks[t].cancelReq
    /\ StdoutEOF(tasks, tasks[t].on)
    /\ LET r == AtWait(streams, tasks, t) IN
       /\ streams' = r.ss
       /\ tasks' = r.ts
    /\ last' = NoLast
    /\ UNCHANGED <<outputVars, workspace, mode, sessions, callbacks, ptys, calls, sweep>>

\* the child the task waits for is gone: `await self.process.wait()` returns
\* and the stderr check follows, or `await self.process.stderr.read()` returns
TaskWaited(t) ==
    /\ ~tasks[t].cancelReq
    /\ IF tasks[t].pc = "waiting"
       THEN /\ tasks[tasks[t].on].proc = "exited"
            /\ LET r == AtStderr(streams, tasks, t) IN
               /\ streams' = r.ss
               /\ tasks' = r.ts
       ELSE /\ tasks[t].pc = "stderr"
            /\ StderrEOF(tasks, tasks[t].on)
            /\ LET r == Complete(streams, tasks, t) IN
               /\ streams' = r.ss
               /\ tasks' = r.ts
    /\ last' = NoLast
    /\ UNCHANGED <<outputVars, workspace, mode, sessions, callbacks, ptys, calls, sweep>>

\* CancelledError is thrown into the task at its await.  Inside the try of
\* StreamSession.send_message the finally clears self.process; inside
\* create_subprocess_exec the transport is closed, which kills the child and
\* waits for it.
TaskCancelled(t) ==
    /\ tasks[t].pc \notin {"free", "done"} /\ tasks[t].cancelReq
    /\ tasks' = [tasks EXCEPT ![t].pc = "done", ![t].on = None,
                              ![t].proc = IF tasks[t].pc = "spawning" THEN "exited" ELSE @]
    /\ streams' = IF tasks[t].pc \in {"reading", "waiting", "stderr"}
                  THEN [streams EXCEPT ![tasks[t].sess].process = None]
                  ELSE streams
    /\ last' = NoLast
    /\ UNCHANGED <<outputVars, workspace, mode, sessions, callbacks, ptys, calls, sweep>>

\* the child spawned by task t closes its stdout and runs on
ProcCloseStdout(t) ==
    /\ tasks[t].proc = "running"
    /\ tasks[t].pc # "spawning"
    /\ tasks' = [tasks EXCEPT ![t].proc = "eof"]
    /\ last' = NoLast
    /\ UNCHANGED <<outputVars, workspace, mode, sessions, callbacks, ptys, streams, calls, sweep>>

\* the child spawned by task t exits (by itself or on a signal) and is reaped
ProcExit(t) ==
    /\ Unreaped(tasks, t)
    /\ tasks' = [tasks EXCEPT ![t].proc = "exited"]
    /\ last' = NoLast
    /\ UNCHANGED <<outputVars, workspace, mode, sessions, callbacks, ptys, streams, calls, sweep>>

\* ---- specifications ---------------------------------------------------------------

Next ==
    \/ ManagerStart
    \/ \E u \in UserIds : Tick(u)
    \/ \E u \in UserIds : SetOutputCallback(u)
    \/ \E u \in UserIds, auth \in AuthMethod : PtyStartSession(u, auth)
    \/ \E u \in UserIds : PtyStopSession(u)
    \/ \E u \in UserIds, op \in {"send_input", "send_slash_command"} : PtySendInput(u, op)
    \/ \E u \in UserIds, auth \in AuthMethod : StreamStartSession(u, auth)
    \/ \E u \in UserIds : StreamStopSession(u)
    \/ \E u \in UserIds, raises \in BOOLEAN : SendMessage(u, raises)
    \/ \E u \in UserIds : CancelRequest(u)
    \/ \E c \in DOMAIN calls, lost \in BOOLEAN : CallResume(c, lost)
    \/ SweepWake
    \/ \E lost \in BOOLEAN : SweepResume(lost)
    \/ \E t \in DOMAIN tasks : TaskStart(t)
    \/ \E t \in DOMAIN tasks : TaskSpawned(t)
    \/ \E t \in DOMAIN tasks : TaskRead(t)
    \/ \E t \in DOMAIN tasks : TaskEOF(t)
    \/ \E t \in DOMAIN tasks : TaskWaited(t)
    \/ \E t \in DOMAIN tasks : TaskCancelled(t)
    \/ \E t \in DOMAIN tasks : ProcCloseStdout(t)
    \/ \E t \in DOMAIN tasks : ProcExit(t)

\* the event loop runs every callback that is ready: resumed coroutines and
\* the sweep's timer.  Clients, children and the clock owe nothing.
Fairness ==
    /\ WF_vars(SweepWake)
    /\ WF_vars(\E lost \in BOOLEAN : SweepResume(lost))
    /\ WF_vars(\E c \in DOMAIN calls, lost \in BOOLEAN : CallResume(c, lost))
    /\ WF_vars(\E t \in DOMAIN tasks : TaskStart(t) \/ TaskCancelled(t))

Spec == Init /\ [][Next]_vars

SpecTwo == InitTwo /\ [][Next]_vars

SpecSmall == InitSmall /\ [][Next]_vars

FairSpec == InitFair /\ [][Next]_vars /\ Fairness

\* the bot from setup_hook to close: the operations of Next and the managers' stop()
InitStop == InitB(UsersStop, MaxSessionsStop, MaxTasksStop, MaxCallsStop)

NextStop ==
    \/ Next
    \/ ManagerStop
    \/ \E lost \in BOOLEAN : StopResume(lost)

SpecStop == InitStop /\ [][NextStop]_vars

TypeOK ==
    /\ mode \in {"pty", "stream"}
    /\ \A u \in UserIds : sessions[u] \in {None} \cup DOMAIN streams
    /\ \A u \in UserIds : callbacks[u] \in BOOLEAN
    /\ \A t \in DOMAIN tasks :
         /\ tasks[t].pc \in {"free", "new", "spawning", "reading", "waiting", "stderr", "done"}
         /\ tasks[t].proc \in {"none", "running", "eof", "killed", "exited"}
    /\ sweep.pc \in {"off", "sleep", "await", "dead", "stopping", "stopped"}
    /\ workspace \in [UserIds -> BOOLEAN]

\* ---- no session engine: the state in which the text functions are applied ----------

NoEngine ==
    /\ mode = "stream"
    /\ sessions = << >>
    /\ callbacks = << >>
    /\ ptys = << >>
    /\ streams = << >>
    /\ tasks = << >>
    /\ calls = << >>
    /\ sweep = SweepAt("off")
    /\ last = NoLast
    /\ workspace = << >>

\* ---- output_parser.chunk_for_discord -----------------------------------------------
\* A str is a sequence of characters.  Indexes are Python's: the first
\* character has index 0.

BQ == "backtick"
NL == "\n"
SP == " "
Fence == <<BQ, BQ, BQ>>               \* the fence marker, three backticks
FenceNL == <<BQ, BQ, BQ, NL>>         \* fence, newline
NLFence == <<NL, BQ, BQ, BQ>>         \* newline, fence
Whitespace == {NL, SP}                \* what str.rstrip() strips, of the characters used

\* the pieces texts are built from
Atoms == {<<BQ>>, Fence, <<NL>>, <<SP>>, <<"a">>}

RECURSIVE Flatten(_)
Flatten(q) == IF q = << >> THEN << >> ELSE Head(q) \o Flatten(Tail(q))

Texts == {Flatten(q) : q \in UNION {[1..n -> Atoms] : n \in 0..MaxAtoms}}

Limits == 1..MaxLimit

Max(S) == CHOOSE x \in S : \A y \in S : y <= x

\* s[:n]
Prefix(s, n) == SubSeq(s, 1, IF n < Len(s) THEN n ELSE Len(s))

\* s[n:]
Suffix(s, n) == SubSeq(s, n + 1, Len(s))

\* s.rfind(pat): the highest index at which pat occurs in s, -1 if none
rfind(s, pat) ==
    LET I == {i \in 0..(Len(s) - Len(pat)) : SubSeq(s, i + 1, i + Len(pat)) = pat} IN
    IF I = {} THEN -1 ELSE Max(I)

\* s.count(fence): the occurrences from index i on, counted from the left
\* without overlap
RECURSIVE count(_, _)
count(s, i) ==
    IF i + 3 > Len(s) THEN 0
    ELSE IF SubSeq(s, i + 1, i + 3) = Fence THEN 1 + count(s, i + 3)
    ELSE count(s, i + 1)

\* s.rstrip()
RECURSIVE rstrip(_)
rstrip(s) ==
    IF s = << >> THEN s
    ELSE IF s[Len(s)] \in Whitespace THEN rstrip(SubSeq(s, 1, Len(s) - 1))
    ELSE s

\* split_point with the word boundary tried before the line boundary
split_point_SpaceFirst(remaining, limit) ==
    LET chunk == Prefix(remaining, limit)
        code_block_end == rfind(chunk, FenceNL)
        para_break == rfind(chunk, <<NL, NL>>)
        line_break == rfind(chunk, <<NL>>)
        space == rfind(chunk, <<SP>>) IN
    IF code_block_end > limit \div 2 THEN code_block_end + 4
    ELSE IF para_break > limit \div 2 THEN para_break + 2
    ELSE IF space > limit \div 2 THEN space + 1
    ELSE IF line_break > limit \div 2 THEN line_break + 1
    ELSE limit

\* "Find best split point within limit", for len(remaining) > limit
split_point(remaining, limit) ==
    LET chunk == Prefix(remaining, limit)
        code_block_end == rfind(chunk, FenceNL)
        para_break == rfind(chunk, <<NL, NL>>)
        line_break == rfind(chunk, <<NL>>)
        space == rfind(chunk, <<SP>>) IN
    IF code_block_end > limit \div 2 THEN code_block_end + 4
    ELSE IF para_break > limit \div 2 THEN para_break + 2
    ELSE IF line_break > limit \div 2 THEN line_break + 1
    ELSE IF space > limit \div 2 THEN space + 1
    ELSE limit

\* the early return with the text normalised by rstrip
short_text_Stripped(text) == IF text # << >> THEN <<rstrip(text)>> ELSE << >>

\* the early return: [text] if text else []
short_text(text) == IF text # << >> THEN <<text>> ELSE << >>

\* chunk_for_discord(text, limit) is called
ChunkInit ==
    /\ NoEngine
    /\ UnitIdle
    /\ buffer = NewBuffer
    /\ request = NoRequest /\ sends = << >> /\ channel = << >>
    /\ \E text \in Texts, limit \in Limits :
         chunker = [NoChunker EXCEPT !.pc = "call", !.text = text, !.limit = limit]

\* chunk_for_discord up to the loop: the early return for a text within limit
ChunkCall ==
    /\ chunker.pc = "call"
    /\ chunker' = IF Len(chunker.text) <= chunker.limit
                  THEN [chunker EXCEPT !.pc = "done", !.chunks = short_text(chunker.text),
                                       !.closed = [i \in DOMAIN short_text(chunker.text) |-> FALSE]]
                  ELSE [chunker EXCEPT !.pc = "loop", !.remaining = chunker.text]
    /\ UNCHANGED <<engineVars, unitVars, buffer, request, sends, channel>>

\* one iteration of `while remaining:`; closed records whether the closing
\* fence was appended to the chunk
ChunkLoop ==
    /\ chunker.pc = "loop"
    /\ Len(chunker.chunks) < MaxChunks
    /\ LET remaining == chunker.remaining
           limit == chunker.limit
           split == split_point(remaining, limit)
           chunk_text == Prefix(remaining, split) IN
       chunker' =
          IF remaining = << >>
          THEN [chunker EXCEPT !.pc = "done"]
          ELSE IF Len(remaining) <= limit
          THEN [chunker EXCEPT !.pc = "done",
                               !.chunks = Append(@, remaining),
                               !.closed = Append(@, FALSE)]
          ELSE IF count(chunk_text, 0) % 2 = 1
          THEN [chunker EXCEPT !.before = remaining, !.split_point = split,
                               !.chunks = Append(@, rstrip(chunk_text) \o NLFence),
                               !.closed = Append(@, TRUE),
                               !.remaining = FenceNL \o Suffix(remaining, split)]
          ELSE [chunker EXCEPT !.before = remaining, !.split_point = split,
                               !.chunks = Append(@, chunk_text),
                               !.closed = Append(@, FALSE),
                               !.remaining = Suffix(remaining, split)]
    /\ UNCHANGED <<engineVars, unitVars, buffer, request, sends, channel>>

ChunkNext == ChunkCall \/ ChunkLoop

ChunkSpec == ChunkInit /\ [][ChunkNext]_vars

\* ---- output_parser.OutputBuffer ----------------------------------------------------

\* what TerminalEmulator.get_content() can return: the rows of the screen
\* without their trailing blanks, joined by newlines, without trailing empty rows
Contents ==
    {c \in UNION {[1..n -> {"a", SP, NL}] : n \in 0..MaxContent} :
        /\ c # << >> => c[Len(c)] \notin Whitespace
        /\ \A i \in 1..(Len(c) - 1) : c[i] = SP => c[i + 1] # NL}

\* s.startswith(p)
startswith(s, p) == Len(p) <= Len(s) /\ SubSeq(s, 1, Len(p)) = p

\* s.lstrip()
RECURSIVE lstrip(_)
lstrip(s) ==
    IF s = << >> THEN s
    ELSE IF Head(s) \in Whitespace THEN lstrip(Tail(s))
    ELSE s

\* s.strip()
strip(s) == lstrip(rstrip(s))

\* OutputBuffer.feed without `self._last_content = current_content`
feed_KeepsLast(b, current_content) ==
    LET new_content == IF startswith(current_content, b._last_content)
                       THEN Suffix(current_content, Len(b._last_content))
                       ELSE current_content IN
    [b EXCEPT !.screen = current_content, !.before = b.screen,
              !.content = strip(new_content), !.fed = @ + 1]

\* OutputBuffer.feed(data), the emulator showing current_content once it has
\* taken data in
feed(b, current_content) ==
    LET new_content == IF startswith(current_content, b._last_content)
                       THEN Suffix(current_content, Len(b._last_content))
                       ELSE current_content IN
    [b EXCEPT !._last_content = current_content,
              !.screen = current_content, !.before = b.screen,
              !.content = strip(new_content), !.fed = @ + 1]

BufferInit ==
    /\ NoEngine
    /\ UnitIdle
    /\ chunker = NoChunker
    /\ request = NoRequest /\ sends = << >> /\ channel = << >>
    /\ buffer = NewBuffer

\* feed(data): no bytes leave the screen as it is, bytes can turn it into any
\* content, the same content included
BufferFeed ==
    /\ buffer.fed < MaxFeeds
    /\ \E empty \in BOOLEAN, current_content \in Contents :
         /\ empty => current_content = buffer.screen
         /\ buffer' = feed(buffer, current_content)
    /\ UNCHANGED <<engineVars, unitVars, chunker, request, sends, channel>>

\* OutputBuffer.clear(): the emulator is reset
BufferClear ==
    /\ buffer.fed > 0
    /\ buffer' = [NewBuffer EXCEPT !.fed = buffer.fed]
    /\ UNCHANGED <<engineVars, unitVars, chunker, request, sends, channel>>

BufferNext == BufferFeed \/ BufferClear

BufferSpec == BufferInit /\ [][BufferNext]_vars

\* ---- output_parser.TerminalEmulator.get_statusbar -----------------------------------

\* the indicators get_statusbar looks for
Keywords ==
    {<<"t", "o", "k", "e", "n">>, <<"c", "o", "s", "t">>, <<"m", "o", "d", "e", "l">>,
     <<"c", "o", "n", "t", "e", "x", "t">>, <<"$">>, <<"s", "o", "n", "n", "e", "t">>,
     <<"o", "p", "u", "s">>, <<"h", "a", "i", "k", "u">>}

\* what the rows of the screen are built from
RowAtoms == {<<"o", "p">>, <<"u", "s">>, <<"U", "S">>, <<"$">>, <<SP>>, <<"x">>}

\* the rows screen.display can hold
Rows == {Flatten(q) : q \in UNION {[1..n -> RowAtoms] : n \in 0..MaxRowAtoms}}

\* the rows above the last one: one piece or none
UpperRows == RowAtoms \cup {<< >>}

\* c.lower(), of the characters used
lower_char(c) == IF c = "U" THEN "u" ELSE IF c = "S" THEN "s" ELSE c

\* s.lower()
lower(s) == [i \in DOMAIN s |-> lower_char(s[i])]

\* x in s
contains(s, x) == rfind(s, x) >= 0

\* TerminalEmulator.get_statusbar with the keywords looked for in last_line
\* itself, not in last_line.lower()
get_statusbar_CaseSensitive(display) ==
    IF display # << >>
    THEN LET last_line == strip(display[Len(display)]) IN
         IF \E x \in Keywords : contains(last_line, x)
         THEN <<last_line>>
         ELSE << >>
    ELSE << >>

\* TerminalEmulator.get_statusbar, display being screen.display; the result
\* is << >> for None and <<line>> for a line
get_statusbar(display) ==
    IF display # << >>
    THEN LET last_line == strip(display[Len(display)]) IN
         IF \E x \in Keywords : contains(lower(last_line), x)
         THEN <<last_line>>
         ELSE << >>
    ELSE << >>

StatusInit ==
    /\ NoEngine
    /\ OutputIdle

\* the terminal has drawn its screen
StatusDraw ==
    /\ emulator.pc = "idle"
    /\ \E upper \in [1..(MaxRows - 1) -> UpperRows], last_row \in Rows :
         emulator' = [emulator EXCEPT !.pc = "drawn", !.display = upper \o <<last_row>>]
    /\ UNCHANGED <<engineVars, chunker, buffer, request, sends, channel, pty, stream, formatter, sandbox, bot>>

\* get_statusbar()
StatusAsk ==
    /\ emulator.pc = "drawn"
    /\ emulator' = [emulator EXCEPT !.pc = "asked", !.statusbar = get_statusbar(emulator.display)]
    /\ UNCHANGED <<engineVars, chunker, buffer, request, sends, channel, pty, stream, formatter, sandbox, bot>>

StatusNext == StatusDraw \/ StatusAsk

StatusSpec == StatusInit /\ [][StatusNext]_vars

\* ---- pty_handler.PTYSession -----------------------------------------------------------

\* the descriptor openpty() returns
MasterFd == 3

\* idle_timeout, the unit in which idle and quiet are counted
IdleTimeout == 1

\* SESSION_TIMEOUT in units of the idle_timeout the read loop of
\* SessionManager passes to read_stream: 3600 s / 300 s
SessionUnits == 12

\* loop is the _output_task of the UserSession that holds the transport
\* ("none": no UserSession), age the time since last_activity, counted for a
\* UserSession, in the same units, up to the first value beyond SessionUnits.
\* A unit of time passes:
Older(p) == IF p.loop # "none" /\ p.age <= SessionUnits THEN p.age + 1 ELSE p.age

\* UserSession.is_expired
session_is_expired(p) == p.age > SessionUnits

\* the state of the transport: unstarted -> running -> (terminated | crashed)
State(p) ==
    IF p.closes > 0 THEN "terminated"
    ELSE IF p.process = "None" THEN "unstarted"
    ELSE IF p.child = "running" THEN "running"
    ELSE "crashed"

\* PTYSession.is_alive: process is not None and process.poll() is None
pty_is_alive(p) == p.process # "None" /\ p.child = "running"

\* a call of op is made on p
Called(p, op) == [p EXCEPT !.n = @ + 1, !.op = op, !.at = State(p), !.res = "pending"]

\* PTYSession.terminate without `self.master_fd = -1`
terminate_KeepsFd(p, stubborn) ==
    LET q == IF pty_is_alive(p)
             THEN [p EXCEPT !.child = IF stubborn THEN "killed" ELSE "exited"]
             ELSE p IN
    IF q.master_fd >= 0
    THEN [q EXCEPT !.closes = @ + 1]
    ELSE q

\* PTYSession.terminate: SIGTERM to a live child, SIGKILL when it is still
\* there after 5 s (stubborn); then the master descriptor is closed
terminate(p, stubborn) ==
    LET q == IF pty_is_alive(p)
             THEN [p EXCEPT !.child = IF stubborn THEN "killed" ELSE "exited"]
             ELSE p IN
    IF q.master_fd >= 0
    THEN [q EXCEPT !.closes = @ + 1, !.master_fd = -1]
    ELSE q

\* PTYSession.write with `if self.master_fd < 0:` for its check
write_NoAliveCheck(p) ==
    IF p.master_fd < 0
    THEN [Called(p, "write") EXCEPT !.res = "not active", !.wat = State(p), !.wres = "not active"]
    ELSE [Called(p, "write") EXCEPT !.writing = TRUE, !.wat = State(p), !.wres = "pending"]

\* PTYSession.write / write_line up to `await loop.run_in_executor(None,
\* os.write, self.master_fd, encoded)`
write(p) ==
    IF p.master_fd < 0 \/ ~pty_is_alive(p)
    THEN [Called(p, "write") EXCEPT !.res = "not active", !.wat = State(p), !.wres = "not active"]
    ELSE [Called(p, "write") EXCEPT !.writing = TRUE, !.wat = State(p), !.wres = "pending"]

PtyInit ==
    /\ NoEngine
    /\ OutputIdle

\* PTYSession(user_id=...)
PtyNew ==
    /\ pty.pc = "idle"
    /\ pty' = [pty EXCEPT !.pc = "live"]
    /\ UNCHANGED <<engineVars, chunker, buffer, request, sends, channel, emulator, stream, formatter, sandbox, bot>>

\* PTYSession.start(command); found says whether Popen finds the command
PtyStart(found) ==
    /\ pty.pc = "live" /\ ~pty.opened /\ pty.n < MaxPtyCalls
    /\ pty' = IF found
              THEN [Called(pty, "start") EXCEPT !.master_fd = MasterFd, !.opened = TRUE,
                                                !.process = "Popen", !.child = "running",
                                                !.last_activity = @ + 1, !.age = 0,
                                                !.res = "ok"]
              ELSE [Called(pty, "start") EXCEPT !.master_fd = MasterFd, !.opened = TRUE,
                                                !.res = "raised"]
    /\ UNCHANGED <<engineVars, chunker, buffer, request, sends, channel, emulator, stream, formatter, sandbox, bot>>

\* the child exits by itself
PtyChildExit ==
    /\ pty.child = "running"
    /\ pty' = [pty EXCEPT !.child = "exited"]
    /\ UNCHANGED <<engineVars, chunker, buffer, request, sends, channel, emulator, stream, formatter, sandbox, bot>>

\* write(data) / write_line(line) is called
PtyWrite ==
    /\ pty.pc = "live" /\ ~pty.writing /\ pty.n < MaxPtyCalls
    /\ pty' = write(pty)
    /\ UNCHANGED <<engineVars, chunker, buffer, request, sends, channel, emulator, stream, formatter, sandbox, bot>>

\* the executor has run os.write on the descriptor write() read from the
\* object: OSError when terminate() has closed it since, OSError or
\* BlockingIOError when the terminal takes no bytes (fails), else the bytes
\* are sent and last_activity is set
PtyWriteDone(fails) ==
    /\ pty.writing
    /\ pty' = IF pty.master_fd < 0 \/ fails
              THEN [pty EXCEPT !.writing = FALSE, !.wres = "raised"]
              ELSE [pty EXCEPT !.writing = FALSE, !.wres = "ok", !.sent = @ + 1,
                               !.last_activity = @ + 1, !.age = 0]
    /\ UNCHANGED <<engineVars, chunker, buffer, request, sends, channel, emulator, stream, formatter, sandbox, bot>>

\* terminate() is called
PtyTerminate(stubborn) ==
    /\ pty.pc = "live" /\ pty.n < MaxPtyCalls
    /\ pty' = [terminate(Called(pty, "terminate"), stubborn) EXCEPT !.res = "ok"]
    /\ UNCHANGED <<engineVars, chunker, buffer, request, sends, channel, emulator, stream, formatter, sandbox, bot>>

\* the child writes a piece of output to its terminal
PtyArrive ==
    /\ pty.child = "running" /\ pty.arrived < MaxArrivals
    /\ pty' = [pty EXCEPT !.arrived = @ + 1, !.buf = Append(@, pty.arrived + 1), !.quiet = 0]
    /\ UNCHANGED <<engineVars, chunker, buffer, request, sends, channel, emulator, stream, formatter, sandbox, bot>>

\* read_stream(chunk_timeout, idle_timeout) is called and asked for its first
\* chunk: idle_start = datetime.now()
GenStart ==
    /\ pty.pc = "live" /\ pty.gen \in {"none", "ended"} /\ pty.loop = "none"
    /\ pty' = [pty EXCEPT !.gen = "test", !.idle = 0, !.quiet = 0]
    /\ UNCHANGED <<engineVars, chunker, buffer, request, sends, channel, emulator, stream, formatter, sandbox, bot>>

\* `while self.is_alive():` and, inside, read() up to its wait in the executor
GenTest ==
    /\ pty.gen = "test"
    /\ pty' = [pty EXCEPT !.gen = IF pty_is_alive(pty) THEN "select" ELSE "ended"]
    /\ UNCHANGED <<engineVars, chunker, buffer, request, sends, channel, emulator, stream, formatter, sandbox, bot>>

\* select finds the descriptor readable and os.read returns the first k
\* pieces: last_activity and idle_start are set, the data is yielded
GenReadData(k) ==
    /\ pty.gen = "select" /\ pty.master_fd >= 0
    /\ k \in 1..Len(pty.buf)
    /\ pty' = [pty EXCEPT !.gen = "yield", !.idle = 0, !.last_activity = @ + 1, !.age = 0,
                          !.out = @ \o SubSeq(pty.buf, 1, k),
                          !.buf = SubSeq(@, k + 1, Len(@))]
    /\ UNCHANGED <<engineVars, chunker, buffer, request, sends, channel, emulator, stream, formatter, sandbox, bot>>

\* read_stream with `break` after every empty read
GenTimeout_NoIdleCheck(tick) ==
    /\ pty.gen = "select" /\ pty.master_fd >= 0
    /\ pty.buf = << >>
    /\ LET idle == IF tick /\ pty.idle <= IdleTimeout THEN pty.idle + 1 ELSE pty.idle
           quiet == IF tick /\ pty.quiet <= IdleTimeout THEN pty.quiet + 1 ELSE pty.quiet IN
       pty' = [pty EXCEPT !.idle = idle, !.quiet = quiet, !.gen = "ended",
                          !.age = IF tick THEN Older(pty) ELSE @]
    /\ UNCHANGED <<engineVars, chunker, buffer, request, sends, channel, emulator, stream, formatter, sandbox, bot>>

\* read() returns b"": select has waited chunk_timeout for nothing, or has
\* met OSError.  tick: the wait has brought the clocks to the next unit.  Then
\* the idle check, and asyncio.sleep(0.01)
GenTimeout(tick) ==
    /\ pty.gen = "select" /\ pty.master_fd >= 0
    /\ pty.buf = << >>
    /\ LET idle == IF tick /\ pty.idle <= IdleTimeout THEN pty.idle + 1 ELSE pty.idle
           quiet == IF tick /\ pty.quiet <= IdleTimeout THEN pty.quiet + 1 ELSE pty.quiet IN
       pty' = [pty EXCEPT !.idle = idle, !.quiet = quiet,
                          !.age = IF tick THEN Older(pty) ELSE @,
                          !.gen = IF idle > IdleTimeout THEN "ended" ELSE "test"]
    /\ UNCHANGED <<engineVars, chunker, buffer, request, sends, channel, emulator, stream, formatter, sandbox, bot>>

\* terminate() has closed the descriptor while read() was in the executor.
\* The executor thread reads self.master_fd unsynchronised: it finds -1 and
\* select([-1], ...) raises ValueError, which read() does not catch (raises),
\* or it holds the closed descriptor and meets OSError, which read() turns
\* into b"" (the idle check and the sleep follow)
GenReadClosed(raises) ==
    /\ pty.gen = "select" /\ pty.master_fd < 0
    /\ pty' = [pty EXCEPT !.gen = IF raises THEN "raised"
                                  ELSE IF pty.idle > IdleTimeout THEN "ended" ELSE "test"]
    /\ UNCHANGED <<engineVars, chunker, buffer, request, sends, channel, emulator, stream, formatter, sandbox, bot>>

\* the consumer asks for the next chunk: asyncio.sleep(0.01), then the loop test
GenResume ==
    /\ pty.gen = "yield"
    /\ pty' = [pty EXCEPT !.gen = "test"]
    /\ UNCHANGED <<engineVars, chunker, buffer, request, sends, channel, emulator, stream, formatter, sandbox, bot>>

\* a unit of time passes while the consumer holds the generator suspended
PtyTick ==
    /\ pty.gen = "yield"
    /\ pty.idle <= IdleTimeout \/ pty.quiet <= IdleTimeout \/ Older(pty) # pty.age
    /\ pty' = [pty EXCEPT !.idle = IF @ <= IdleTimeout THEN @ + 1 ELSE @,
                          !.quiet = IF @ <= IdleTimeout THEN @ + 1 ELSE @,
                          !.age = Older(pty)]
    /\ UNCHANGED <<engineVars, chunker, buffer, request, sends, channel, emulator, stream, formatter, sandbox, bot>>

\* __del__: the last reference is gone (no coroutine of the object is
\* suspended), terminate() is called once more
PtyDel(stubborn) ==
    /\ pty.pc = "live" /\ ~pty.writing /\ pty.gen \in {"none", "ended", "raised"}
    /\ pty.loop # "running"
    /\ pty' = [terminate(Called(pty, "__del__"), stubborn) EXCEPT !.res = "ok", !.pc = "deleted"]
    /\ UNCHANGED <<engineVars, chunker, buffer, request, sends, channel, emulator, stream, formatter, sandbox, bot>>

PtyNext ==
    \/ PtyNew
    \/ \E found \in BOOLEAN : PtyStart(found)
    \/ PtyChildExit
    \/ PtyWrite
    \/ \E fails \in BOOLEAN : PtyWriteDone(fails)
    \/ \E stubborn \in BOOLEAN : PtyTerminate(stubborn)
    \/ \E stubborn \in BOOLEAN : PtyDel(stubborn)
    \/ PtyArrive
    \/ GenStart
    \/ GenTest
    \/ \E k \in 1..MaxArrivals : GenReadData(k)
    \/ \E tick \in BOOLEAN : GenTimeout(tick)
    \/ \E raises \in BOOLEAN : GenReadClosed(raises)
    \/ GenResume
    \/ PtyTick

PtySpec == PtyInit /\ [][PtyNext]_vars

\* SessionManager.start_session behind create_pty_session: the UserSession is
\* put into the table and its _read_output_loop task created; the task runs up
\* to its first read in read_stream(chunk_timeout=0.1, idle_timeout=300)
LoopStart ==
    /\ pty.pc = "live" /\ pty.process # "None" /\ pty.closes = 0
    /\ pty.loop = "none" /\ pty.gen = "none"
    /\ pty' = [pty EXCEPT !.loop = "running", !.gen = "test", !.idle = 0, !.quiet = 0]
    /\ UNCHANGED <<engineVars, chunker, buffer, request, sends, channel, emulator, stream, formatter, sandbox, bot>>

\* read_stream has ended or raised: `async for` is left (an exception is
\* swallowed by `except Exception: pass`) and _read_output_loop returns
LoopEnd ==
    /\ pty.loop = "running" /\ pty.gen \in {"ended", "raised"}
    /\ pty' = [pty EXCEPT !.loop = "done"]
    /\ UNCHANGED <<engineVars, chunker, buffer, request, sends, channel, emulator, stream, formatter, sandbox, bot>>

LoopNext == PtyNext \/ LoopStart \/ LoopEnd

LoopSpec == PtyInit /\ [][LoopNext]_vars

\* the event loop runs the generator whenever it can go on, the consumer asks
\* for the next chunk, and time does not stand still over endless polls
PtyFairness ==
    /\ WF_vars(GenTest)
    /\ WF_vars(\E k \in 1..MaxArrivals : GenReadData(k))
    /\ WF_vars(\E raises \in BOOLEAN : GenReadClosed(raises))
    /\ WF_vars(GenResume)
    /\ SF_vars(GenTimeout(TRUE))

PtyFairSpec == PtyInit /\ [][PtyNext]_vars /\ PtyFairness

\* ---- stream_handler.StreamSession: one session, its requests one after another ------

\* The fields of NoStream beyond the dataclass's: pc ("idle": no object yet,
\* "ready": no request, "reading": in the loop of _read_events, "waiting":
\* behind the loop), n the requests made, cmd the continuation argument of the
\* last command built (<< >>: none), stdout the lines the child of the request
\* writes, pos the lines read so far, yielded the events send_message has
\* yielded in this request, received the result events it has been given so
\* far: the sums of their fields and the last session id one of them carried.

SessionIds == {<<1>>, <<2>>}

\* a line of stdout, stripped and not empty: text that is not JSON, a JSON
\* value that is not an object, {"type": "error", "error": "..."}, an
\* assistant event, a result event with or without session_id
Line(kind, id) ==
    [kind |-> kind, session_id |-> id,
     input_tokens |-> IF kind = "result" THEN 1 ELSE 0,
     output_tokens |-> IF kind = "result" THEN 2 ELSE 0,
     cost_usd |-> IF kind = "result" THEN 3 ELSE 0]

StdoutLines ==
    {Line(k, << >>) : k \in {"not json", "not object", "error string", "assistant"}}
        \cup {Line("result", id) : id \in SessionIds \cup {<< >>}}

\* StreamEvent(type, content, raw) with the metadata of a result event
StreamEvent(type, line) ==
    [type |-> type, session_id |-> line.session_id, input_tokens |-> line.input_tokens,
     output_tokens |-> line.output_tokens, cost_usd |-> line.cost_usd]

\* _parse_event(line): None for a JSONDecodeError; data.get of a value that is
\* not a dict, and data.get("error", {}).get of a str, raise AttributeError
parse_event(line) ==
    [raised |-> line.kind \in {"not object", "error string"},
     event |-> IF line.kind \in {"assistant", "result"}
               THEN <<StreamEvent(line.kind, line)>> ELSE << >>]

\* _build_command: ["--continue", session_id] if self.session_id
build_command(s) == s.session_id

\* a result event is received
Receive(r, event) ==
    IF event.type # "result" THEN r
    ELSE [input_tokens |-> r.input_tokens + event.input_tokens,
          output_tokens |-> r.output_tokens + event.output_tokens,
          cost_usd |-> r.cost_usd + event.cost_usd,
          session_id |-> IF event.session_id # << >> THEN event.session_id
                         ELSE r.session_id]

\* the body of send_message's loop with every result event folded into the state
update_AnyResult(s, event) ==
    LET t == [s EXCEPT !.yielded = Append(@, event),
                       !.received = Receive(@, event)] IN
    IF event.type = "result"
    THEN [t EXCEPT !.session_id = event.session_id,
                   !.total_input_tokens = @ + event.input_tokens,
                   !.total_output_tokens = @ + event.output_tokens,
                   !.total_cost_usd = @ + event.cost_usd]
    ELSE t

\* the body of send_message's loop for one event: session state is updated
\* `if event.type == "result" and event.session_id`, the event is yielded
update(s, event) ==
    LET t == [s EXCEPT !.yielded = Append(@, event),
                       !.received = Receive(@, event)] IN
    IF event.type = "result" /\ event.session_id # << >>
    THEN [t EXCEPT !.session_id = event.session_id,
                   !.total_input_tokens = @ + event.input_tokens,
                   !.total_output_tokens = @ + event.output_tokens,
                   !.total_cost_usd = @ + event.cost_usd]
    ELSE t

StreamInit == NoEngine /\ OutputIdle

\* create_stream_session: StreamSession(user_id, workspace, auth_method)
SessionNew ==
    /\ stream.pc = "idle"
    /\ stream' = [stream EXCEPT !.pc = "ready"]
    /\ UNCHANGED <<engineVars, chunker, buffer, request, sends, channel, emulator, pty, formatter, sandbox, bot>>

\* send_message(message) up to the first read: the command is built, the child
\* is spawned; lines is what the child will have written to stdout by its end
SessionSend(lines) ==
    /\ stream.pc = "ready" /\ stream.n < MaxRequests
    /\ stream' = [stream EXCEPT !.pc = "reading", !.process = "running", !.n = @ + 1,
                                !.cmd = build_command(stream), !.stdout = lines,
                                !.pos = 0, !.yielded = << >>]
    /\ UNCHANGED <<engineVars, chunker, buffer, request, sends, channel, emulator, pty, formatter, sandbox, bot>>

\* _read_events takes the next line: _parse_event raises and `except
\* Exception: break` leaves the loop, or it returns None and the line is
\* skipped, or the event is yielded to send_message
SessionReadLine ==
    /\ stream.pc = "reading" /\ stream.pos < Len(stream.stdout)
    /\ LET parsed == parse_event(stream.stdout[stream.pos + 1])
           s == [stream EXCEPT !.pos = @ + 1] IN
       stream' = IF parsed.raised THEN [s EXCEPT !.pc = "waiting"]
                 ELSE IF parsed.event = << >> THEN s
                 ELSE update(s, parsed.event[1])
    /\ UNCHANGED <<engineVars, chunker, buffer, request, sends, channel, emulator, pty, formatter, sandbox, bot>>

\* stdout.read returns b"": the loop is left
SessionEof ==
    /\ stream.pc = "reading" /\ stream.pos = Len(stream.stdout)
    /\ stream' = [stream EXCEPT !.pc = "waiting"]
    /\ UNCHANGED <<engineVars, chunker, buffer, request, sends, channel, emulator, pty, formatter, sandbox, bot>>

\* process.wait() returns; what the child wrote to stderr is yielded as an
\* error event; `finally: self.process = None`
SessionEnd(stderr) ==
    /\ stream.pc = "waiting"
    /\ LET s == IF stderr THEN update(stream, StreamEvent("error", Line("stderr", << >>)))
                ELSE stream IN
       stream' = [s EXCEPT !.pc = "ready", !.process = "None"]
    /\ UNCHANGED <<engineVars, chunker, buffer, request, sends, channel, emulator, pty, formatter, sandbox, bot>>

\* cancel() during a request, and the consumer gives the request up: the child
\* is terminated, what it has not written yet is never written
SessionCancel ==
    /\ stream.pc = "reading"
    /\ stream' = [stream EXCEPT !.pc = "ready", !.process = "None",
                                !.stdout = SubSeq(@, 1, stream.pos)]
    /\ UNCHANGED <<engineVars, chunker, buffer, request, sends, channel, emulator, pty, formatter, sandbox, bot>>

SessionNext ==
    \/ SessionNew
    \/ \E k \in 0..MaxLines : \E lines \in [1..k -> StdoutLines] : SessionSend(lines)
    \/ SessionReadLine
    \/ SessionEof
    \/ \E stderr \in BOOLEAN : SessionEnd(stderr)
    \/ SessionCancel

SessionSpec == StreamInit /\ [][SessionNext]_vars

\* ---- stream_parser.StreamBuffer and StreamOutputFormatter ----------------------------

\* The fields of NoFormatter beyond the two classes': pc ("idle": no object
\* yet), op the last method called, event the event it was given (<<e>>),
\* before the delta buffer as the call found it, content what
\* StreamBuffer.feed returned (<< >>: None), chunks what the method returned.

EventTexts == UNION {[1..n -> {"a", "b"}] : n \in 0..MaxText}

\* a StreamEvent as the formatter sees it: type, content, whether raw holds
\* tool_use blocks, and the metadata of a result event
FormatterEvents ==
    {[type |-> t, content |-> c, tools |-> FALSE, model |-> << >>, session_id |-> << >>,
      input_tokens |-> 0, output_tokens |-> 0, cost_usd |-> 0] :
         t \in {"assistant", "content_block_delta", "result", "error", "system"},
         c \in EventTexts}
    \cup {[type |-> "assistant", content |-> c, tools |-> TRUE, model |-> << >>,
           session_id |-> << >>, input_tokens |-> 0, output_tokens |-> 0, cost_usd |-> 0] :
              c \in EventTexts}
    \cup {[type |-> "result", content |-> c, tools |-> FALSE, model |-> <<"m">>,
           session_id |-> <<1>>, input_tokens |-> 1, output_tokens |-> 2, cost_usd |-> 3] :
              c \in EventTexts}

\* StreamBuffer._flush (_last_flush, which the code never reads, is left out)
flush_buffer(f) ==
    [f EXCEPT !.content = <<f._content_buffer>>, !._content_buffer = << >>]

\* a flush only when the buffer is longer than the threshold
should_flush_Above(content_buffer) == Len(content_buffer) > FlushThreshold

\* `if len(self._content_buffer) >= self.flush_threshold`
should_flush(content_buffer) == Len(content_buffer) >= FlushThreshold

\* the text of an error event without the marker
error_text_NoMarker(event) == event.content

\* f"**Error:** {event.content}"
error_text(event) == <<"**Error:** ">> \o event.content

\* StreamBuffer.feed with an assistant event that leaves the deltas in the buffer
StreamBuffer_feed_KeepsDeltas(f, event) ==
    LET g == [f EXCEPT !.content = << >>] IN
    CASE event.type = "assistant" ->
            IF event.content # << >>
            THEN [g EXCEPT !._is_streaming = FALSE, !.content = <<event.content>>]
            ELSE [g EXCEPT !._is_streaming = FALSE]
      [] event.type = "content_block_delta" ->
            LET h == [g EXCEPT !._is_streaming = TRUE,
                               !._content_buffer = @ \o event.content] IN
            IF should_flush(h._content_buffer) THEN flush_buffer(h) ELSE h
      [] event.type = "result" ->
            LET h == [g EXCEPT !._is_streaming = FALSE] IN
            IF h._content_buffer # << >> THEN flush_buffer(h) ELSE h
      [] event.type = "error" ->
            [g EXCEPT !._is_streaming = FALSE, !.content = <<error_text(event)>>]
      [] OTHER -> g

\* StreamBuffer.feed(event); .content is what it returns
StreamBuffer_feed(f, event) ==
    LET g == [f EXCEPT !.content = << >>] IN
    CASE event.type = "assistant" ->
            IF event.content # << >>
            THEN [g EXCEPT !._is_streaming = FALSE, !._content_buffer = << >>,
                           !.content = <<event.content>>]
            ELSE [g EXCEPT !._is_streaming = FALSE]
      [] event.type = "content_block_delta" ->
            LET h == [g EXCEPT !._is_streaming = TRUE,
                               !._content_buffer = @ \o event.content] IN
            IF should_flush(h._content_buffer) THEN flush_buffer(h) ELSE h
      [] event.type = "result" ->
            LET h == [g EXCEPT !._is_streaming = FALSE] IN
            IF h._content_buffer # << >> THEN flush_buffer(h) ELSE h
      [] event.type = "error" ->
            [g EXCEPT !._is_streaming = FALSE, !.content = <<error_text(event)>>]
      [] OTHER -> g

\* format_tool_use(event): the notice for an assistant event with tool_use blocks
format_tool_use(event) ==
    IF event.type = "assistant" /\ event.tools THEN <<<<"*Using tools*">>>> ELSE << >>

\* StatusInfo.from_event without the session id
from_event_NoSessionId(event) ==
    [model |-> event.model, input_tokens |-> event.input_tokens,
     output_tokens |-> event.output_tokens, cost_usd |-> event.cost_usd,
     session_id |-> << >>]

\* StatusInfo.from_event
from_event(event) ==
    [model |-> event.model, input_tokens |-> event.input_tokens,
     output_tokens |-> event.output_tokens, cost_usd |-> event.cost_usd,
     session_id |-> event.session_id]

\* StreamBuffer.clear
clear(f) == [f EXCEPT !._content_buffer = << >>, !._is_streaming = FALSE]

FormatterInit == NoEngine /\ OutputIdle

\* StreamOutputFormatter()
FormatterNew ==
    /\ formatter.pc = "idle"
    /\ formatter' = [formatter EXCEPT !.pc = "ready"]
    /\ UNCHANGED <<engineVars, chunker, buffer, request, sends, channel, emulator, pty, stream, sandbox, bot>>

\* StreamOutputFormatter.feed(event); the texts are within the Discord limit,
\* for which chunk_for_discord returns the text as its one chunk
FormatterFeed(event) ==
    /\ formatter.pc = "ready"
    /\ LET f == StreamBuffer_feed(formatter, event)
           content == IF f.content # << >> /\ f.content[1] # << >>
                      THEN short_text(f.content[1]) ELSE << >> IN
       formatter' = [f EXCEPT !.op = "feed", !.event = <<event>>,
                              !.before = formatter._content_buffer,
                              !.chunks = format_tool_use(event) \o content,
                              !.status = IF event.type = "result" THEN from_event(event) ELSE @]
    /\ UNCHANGED <<engineVars, chunker, buffer, request, sends, channel, emulator, pty, stream, sandbox, bot>>

\* StreamOutputFormatter.flush()
FormatterFlush ==
    /\ formatter.pc = "ready"
    /\ formatter' = [clear(formatter) EXCEPT !.op = "flush", !.event = << >>,
                                             !.before = formatter._content_buffer,
                                             !.content = << >>,
                                             !.chunks = short_text(formatter._content_buffer)]
    /\ UNCHANGED <<engineVars, chunker, buffer, request, sends, channel, emulator, pty, stream, sandbox, bot>>

\* StreamOutputFormatter.reset()
FormatterReset ==
    /\ formatter.pc = "ready"
    /\ formatter' = [clear(formatter) EXCEPT !.op = "reset", !.event = << >>,
                                             !.before = formatter._content_buffer,
                                             !.content = << >>, !.chunks = << >>]
    /\ UNCHANGED <<engineVars, chunker, buffer, request, sends, channel, emulator, pty, stream, sandbox, bot>>

FormatterNext ==
    \/ FormatterNew
    \/ \E event \in FormatterEvents : FormatterFeed(event)
    \/ FormatterFlush
    \/ FormatterReset

FormatterSpec == FormatterInit /\ [][FormatterNext]_vars

\* ---- sandbox_runner: get_bwrap_command and setup_sandbox called on their own -----------

\* The fields of NoSandbox: pc ("idle": the host not looked at yet), dirs the
\* directories that exist, <<u>> the workspace of u and <<u, ".claude">> the
\* directory in it, npm_lib whether <npm prefix>/lib/node_modules exists,
\* spawned the processes the builder has spawned, n the calls made, op and
\* user the last call and cmd the command it returned.

SandboxUsers == {"A", "B"}

\* the directories of the users that can exist together
HostDirs ==
    {d \in SUBSET ({<<u>> : u \in SandboxUsers} \cup {<<u, ".claude">> : u \in SandboxUsers}) :
        \A u \in SandboxUsers : <<u, ".claude">> \in d => <<u>> \in d}

\* get_bwrap_command(user_id, workspace_path): the command it returns, here
\* the parts that depend on its arguments and on the host; and before it is
\* built, os.popen("npm config get prefix"), a shell with npm as its child
get_bwrap_command(sb, u) ==
    [sb EXCEPT !.spawned = @ + 1,
               !.cmd = (IF sb.npm_lib THEN <<"--ro-bind", "npm_lib">> ELSE << >>)
                       \o <<"--bind", u, "/workspace", "--", "claude">>]

SandboxInit == NoEngine /\ OutputIdle

\* the host on which the builder is called
SandboxHost(dirs, npm_lib) ==
    /\ sandbox.pc = "idle"
    /\ sandbox' = [sandbox EXCEPT !.pc = "ready", !.dirs = dirs, !.npm_lib = npm_lib]
    /\ UNCHANGED <<engineVars, chunker, buffer, request, sends, channel, emulator, pty, stream, formatter, bot>>

\* a call of get_bwrap_command(user_id, workspace_path)
SandboxCommand(u) ==
    /\ sandbox.pc = "ready" /\ sandbox.n < MaxBuilds
    /\ sandbox' = [get_bwrap_command(sandbox, u) EXCEPT !.n = @ + 1,
                        !.op = "get_bwrap_command", !.user = u]
    /\ UNCHANGED <<engineVars, chunker, buffer, request, sends, channel, emulator, pty, stream, formatter, bot>>

\* a call of setup_sandbox(user_id): ensure_workspace, mkdir of .claude in
\* the workspace, get_bwrap_command
SandboxSetup(u) ==
    /\ sandbox.pc = "ready" /\ sandbox.n < MaxBuilds
    /\ LET sb == [sandbox EXCEPT !.dirs = @ \cup {<<u>>, <<u, ".claude">>}] IN
       sandbox' = [get_bwrap_command(sb, u) EXCEPT !.n = @ + 1,
                        !.op = "setup_sandbox", !.user = u]
    /\ UNCHANGED <<engineVars, chunker, buffer, request, sends, channel, emulator, pty, stream, formatter, bot>>

SandboxNext ==
    \/ \E dirs \in HostDirs, npm_lib \in BOOLEAN : SandboxHost(dirs, npm_lib)
    \/ \E u \in SandboxUsers : SandboxCommand(u)
    \/ \E u \in SandboxUsers : SandboxSetup(u)

SandboxSpec == SandboxInit /\ [][SandboxNext]_vars

\* ---- bot: the PTY bot's output queue and _process_output_queue ---------------

BotInit == NoEngine /\ OutputIdle

\* the start command: self._output_queues[user_id] = asyncio.Queue() and
\* create_task(self._process_output_queue(user_id)); the task up to its first
\* `await asyncio.wait_for(queue.get(), timeout=0.5)`
BotStart ==
    /\ bot.pc = "idle"
    /\ bot' = [NoBot EXCEPT !.pc = "get"]
    /\ UNCHANGED <<engineVars, chunker, buffer, request, sends, channel, emulator, pty, stream, formatter, sandbox>>

\* the output callback: put_nowait((channel, parsed)); content says that
\* parsed.content is non-empty
BotCallback(content) ==
    /\ bot.pc \in {"get", "timeout"}
    /\ bot.n < MaxItems
    /\ bot' = [bot EXCEPT !.n = @ + 1,
                          !.queue = Append(@, [item |-> bot.n + 1, content |-> content])]
    /\ UNCHANGED <<engineVars, chunker, buffer, request, sends, channel, emulator, pty, stream, formatter, sandbox>>

\* more than 1.0 s have passed since last_send
BotElapse ==
    /\ bot.pc \in {"get", "timeout"}
    /\ bot.recent
    /\ bot' = [bot EXCEPT !.recent = FALSE]
    /\ UNCHANGED <<engineVars, chunker, buffer, request, sends, channel, emulator, pty, stream, formatter, sandbox>>

\* queue.get() returns an item: `if parsed.content: buffer += parsed.content`,
\* then the buffer is sent when `len(buffer) > 1500 or (buffer and elapsed >
\* 1.0)`.  large: the buffer has grown beyond 1500 characters.
BotGet(large) ==
    /\ bot.pc = "get"
    /\ bot.queue # << >>
    /\ LET head == Head(bot.queue)
           buf == IF head.content THEN Append(bot.buffer, head.item) ELSE bot.buffer
           send == large \/ (buf # << >> /\ ~bot.recent) IN
       /\ large => buf # << >>
       /\ bot' = [bot EXCEPT !.queue = Tail(@),
                             !.buffer = IF send THEN << >> ELSE buf,
                             !.sent = IF send THEN @ \o buf ELSE @,
                             !.recent = IF send THEN TRUE ELSE @]
    /\ UNCHANGED <<engineVars, chunker, buffer, request, sends, channel, emulator, pty, stream, formatter, sandbox>>

\* 0.5 s have passed without an item: wait_for cancels queue.get(), and the
\* task is resumed with TimeoutError at a later turn of the event loop
BotTimer ==
    /\ bot.pc = "get"
    /\ bot.queue = << >>
    /\ bot' = [bot EXCEPT !.pc = "timeout"]
    /\ UNCHANGED <<engineVars, chunker, buffer, request, sends, channel, emulator, pty, stream, formatter, sandbox>>

\* `except TimeoutError:` with a non-empty buffer, `channel = None`, then
\* `channel, _ = self._output_queues[user_id].get_nowait()` (QueueEmpty: pass),
\* `if channel: await self._send_output(channel, buffer)`, and `buffer = ""`,
\* `last_send = now` in either case; then the next wait
BotTimeout ==
    /\ bot.pc = "timeout"
    /\ bot' = IF bot.buffer = << >>
              THEN [bot EXCEPT !.pc = "get"]
              ELSE [bot EXCEPT !.pc = "get",
                               !.queue = IF @ = << >> THEN @ ELSE Tail(@),
                               !.sent = IF bot.queue = << >> THEN @ ELSE @ \o bot.buffer,
                               !.buffer = << >>,
                               !.recent = TRUE]
    /\ UNCHANGED <<engineVars, chunker, buffer, request, sends, channel, emulator, pty, stream, formatter, sandbox>>

\* the stop command: task.cancel() and _output_queues.pop(user_id);
\* `except asyncio.CancelledError: break`
BotStop ==
    /\ bot.pc \in {"get", "timeout"}
    /\ bot' = [bot EXCEPT !.pc = "stopped", !.queue = << >>]
    /\ UNCHANGED <<engineVars, chunker, buffer, request, sends, channel, emulator, pty, stream, formatter, sandbox>>

BotNext ==
    \/ BotStart
    \/ \E content \in BOOLEAN : BotCallback(content)
    \/ BotElapse
    \/ \E large \in BOOLEAN : BotGet(large)
    \/ BotTimer
    \/ BotTimeout
    \/ BotStop

BotSpec == BotInit /\ [][BotNext]_vars

\* ---- delivery: _process_message, the stream bot's callback, send_chunks -------------

\* callback(user_id, chunks, status) of stream_bot._create_output_callback, given
\* n > 0 chunks: asyncio.create_task(send_chunks(chunks)).  next is the chunk
\* the task sends next.
callback(ss, n) == Append(ss, [chunks |-> n, next |-> 1, pc |-> "ready"])

DeliveryInit ==
    /\ NoEngine
    /\ UnitIdle
    /\ chunker = NoChunker
    /\ buffer = NewBuffer
    /\ \E cb \in BOOLEAN : request = [NoRequest EXCEPT !.pc = "events", !.cb = cb]
    /\ sends = << >>
    /\ channel = << >>

\* _process_message, one turn of `async for event in session.stream.send_message`:
\* formatter.feed(event) gives n chunks; the callback is invoked for them inside
\* try/except and may raise
RequestEvent(n, raises) ==
    /\ request.pc = "events"
    /\ request.events < MaxEvents
    /\ raises => (n > 0 /\ request.cb)
    /\ request' = [request EXCEPT !.events = @ + 1,
                                  !.produced = IF n > 0 THEN @ + 1 ELSE @,
                                  !.offered = IF n > 0 /\ request.cb THEN @ + 1 ELSE @,
                                  !.raised = @ \/ raises]
    /\ sends' = IF n > 0 /\ request.cb /\ ~raises THEN callback(sends, n) ELSE sends
    /\ UNCHANGED <<engineVars, unitVars, chunker, buffer, channel>>

\* _process_message once the events are exhausted: formatter.flush() gives n
\* chunks, the callback is invoked for them outside the inner try; when it
\* raises, `except Exception as e` invokes the callback with the error text,
\* and what that invocation raises leaves the task.  Text is pending only when
\* an event has left some.
RequestEnd(n, raises, raises2) ==
    /\ request.pc = "events"
    /\ n > 0 => request.events > 0
    /\ raises => (n > 0 /\ request.cb)
    /\ raises2 => raises
    /\ request' = [request EXCEPT !.pc = IF raises2 THEN "escaped" ELSE "done",
                                  !.produced = IF n > 0 THEN @ + 1 ELSE @,
                                  !.offered = IF n > 0 /\ request.cb THEN @ + 1 ELSE @,
                                  !.raised = @ \/ raises]
    /\ sends' = IF n > 0 /\ request.cb /\ ~raises THEN callback(sends, n)
                ELSE IF raises /\ ~raises2 THEN callback(sends, 1)
                ELSE sends
    /\ UNCHANGED <<engineVars, unitVars, chunker, buffer, channel>>

\* stop_session(user_id) while the run is under way: the session and the
\* callback are popped from the manager's tables and stream.cancel()
\* terminates the child when self.process is assigned.  Nothing cancels the
\* task: it keeps the callback it read from the table when it began, reads what
\* the child wrote (all of it when the child was not yet assigned) and flushes.
RequestStopSession ==
    /\ request.pc = "events"
    /\ ~request.stopped
    /\ request' = [request EXCEPT !.stopped = TRUE]
    /\ UNCHANGED <<engineVars, unitVars, chunker, buffer, sends, channel>>

\* send_chunks, one turn of `for chunk in chunks`: `await channel.send(chunk)`
\* posts the chunk (ok) or raises discord.HTTPException (break); then
\* `await asyncio.sleep(0.3)` when there are several chunks.  Tasks take their
\* first step in the order in which they were created.
SendChunk(t, ok) ==
    /\ sends[t].pc = "ready"
    /\ sends[t].next = 1 => \A t2 \in 1..(t - 1) : sends[t2].next > 1 \/ sends[t2].pc = "done"
    /\ sends' = [sends EXCEPT ![t].next = IF ok THEN @ + 1 ELSE @,
                              ![t].pc = IF ok /\ sends[t].next < sends[t].chunks
                                        THEN "ready" ELSE "done"]
    /\ channel' = IF ok THEN Append(channel, [task |-> t, chunk |-> sends[t].next])
                  ELSE channel
    /\ UNCHANGED <<engineVars, unitVars, chunker, buffer, request>>

DeliveryNext ==
    \/ \E n \in 0..MaxPerCall, raises \in BOOLEAN : RequestEvent(n, raises)
    \/ \E n \in 0..MaxPerCall, raises, raises2 \in BOOLEAN : RequestEnd(n, raises, raises2)
    \/ RequestStopSession
    \/ \E t \in DOMAIN sends, ok \in BOOLEAN : SendChunk(t, ok)

DeliverySpec == DeliveryInit /\ [][DeliveryNext]_vars

\* ---- claims ------------------------------------------------------------------------

\* the children of session s that run: spawned by a task of s, not killed, not reaped
Children(s) == {t \in TaskIds : tasks[t].sess = s /\ tasks[t].proc \in {"running", "eof"}}

\* the session of u is in the table and idle for longer than SESSION_TIMEOUT
ExpiredInTable(u) ==
    /\ sessions[u] # None
    /\ IF mode = "stream" THEN is_expired(streams, sessions[u]) ELSE is_expired(ptys, sessions[u])

\* the live PTY transports of u
LivePtys(u) == {s \in DOMAIN ptys : ptys[s].user = u /\ ptys[s].alive}

SendOps == {"send_message", "send_input", "send_slash_command"}

\* this step is a start_session(u) call that returns or raises
StartCall(u) == last'.op = "start_session" /\ last'.user = u

\* C1: every stream session has at most one running child at any time, and a
\* send_message that is accepted (returns True) finds no child of the session
\* running.
C1_OneChildPerSession ==
    /\ \A s \in DOMAIN streams : Cardinality(Children(s)) <= 1
    /\ (last.op = "send_message" /\ last.res = "True") =>
          \A t \in Children(last.sess) : FALSE

\* C3: PTY manager: when a start_session(u) given credentials has completed,
\* be it the first for u or one that follows another, exactly one live
\* transport exists for u, that of the session in the table.
C3_RestartLeavesOneTransport ==
    (mode = "pty" /\ last.op = "start_session" /\ ~last.noauth)
    => (/\ sessions[last.user] # None
        /\ LivePtys(last.user) = {sessions[last.user]})

C5_CancelLeavesSessionUsable ==
    [][/\ (last'.op = "cancel_request" /\ last'.res = "True")
          => (/\ ~is_busy(streams', tasks', last'.sess)
              /\ tasks'[last'.proc].proc \notin {"running", "eof"})
       /\ (/\ last.op = "cancel_request" /\ last.res = "True"
           /\ last'.op = "send_message" /\ last'.user = last.user
           /\ sessions[last.user] = last.sess)
          => last'.res # "False"]_vars

\* C6: a session in the table whose idle time exceeds SESSION_TIMEOUT is
\* eventually removed from the table, unless activity ends its idleness.
C6_ExpiredIsRemoved ==
    \A u \in UsersFair : ExpiredInTable(u) ~> ~ExpiredInTable(u)

\* this step is the sweep (no manager call returns or suspends in it) and
\* takes the session of u out of the table
SweepRemoves(u) ==
    /\ sessions[u] # None /\ sessions'[u] = None
    /\ last' = NoLast /\ calls' = calls

\* C7: the sweep removes only sessions that are dead or idle-expired at the
\* moment it removes them.
C7_SweepRemovesOnlyExpired ==
    [][\A u \in UserIds :
         SweepRemoves(u)
         => (ExpiredInTable(u) \/ (mode = "pty" /\ ~is_alive(ptys, sessions[u])))]_vars

\* C8: send_input, send_slash_command and send_message return True only for a
\* session that is in the table and not idle-expired.
C8_NoSendToExpired ==
    (last.op \in SendOps /\ last.res = "True")
    => (sessions[last.user] = last.sess /\ ~ExpiredInTable(last.user))

\* C9: send_input, send_slash_command and send_message always return a
\* boolean; no exception leaves them.
C9_SendReturnsBoolean ==
    last.op \in SendOps => last.res \in {"True", "False"}

C13_StopSessionReleases ==
    last.op = "stop_session"
    => (/\ last.res = "ok"
        /\ sessions[last.user] = None
        /\ ~callbacks[last.user]
        /\ last.sess # None => Children(last.sess) = {})

\* C14: no start_session, stop_session, sweep or manager stop() deletes a
\* user's workspace directory: once it exists it exists in every later state.
C14_WorkspaceKept ==
    [][\A u \in UserIds : workspace[u] => workspace'[u]]_vars

\* C14 witness: stop() has returned with the tables cleared, and the workspace
\* of a user whose session was created and taken down in this run exists
C14_Witness ==
    /\ last.op = "stop" /\ last.res = "ok"
    /\ \E u \in UserIds :
         /\ workspace[u]
         /\ sessions[u] = None
         /\ \E s \in DOMAIN streams : streams[s].user = u

\* ---- claims about chunk_for_discord ---------------------------------------------------

\* C15: every chunk returned by chunk_for_discord(T, L) has at most L
\* characters, also a chunk that was closed with an appended fence or
\* re-opened with a prepended one.
C15_ChunksWithinLimit ==
    \A i \in DOMAIN chunker.chunks : Len(chunker.chunks[i]) <= chunker.limit

\* chunk i without the fence-repair markers: the re-opening fence and newline
\* at its head when the chunk before it was closed, and the last n characters
\* (the closing fence, with or without the newline before it) when it was
\* closed itself
Unrepaired(i, n) ==
    LET c == chunker.chunks[i]
        a == IF i > 1 /\ chunker.closed[i - 1] THEN Suffix(c, 4) ELSE c IN
    IF chunker.closed[i] THEN Prefix(a, Len(a) - n) ELSE a

RECURSIVE Rejoin(_, _)
Rejoin(i, n) ==
    IF i > Len(chunker.chunks) THEN << >> ELSE Unrepaired(i, n) \o Rejoin(i + 1, n)

\* C16: the chunks of chunk_for_discord(T, L), joined in order after the
\* inserted fence-repair markers are removed, are T; the closing marker is
\* taken as the fence with the newline inserted before it or as the fence alone.
C16_RejoinReproducesText ==
    chunker.pc = "done" => (Rejoin(1, 4) = chunker.text \/ Rejoin(1, 3) = chunker.text)

\* C17: every chunk returned by chunk_for_discord holds an even number of
\* fence markers, the last chunk included.
C17_EvenFences ==
    \A i \in DOMAIN chunker.chunks : count(chunker.chunks[i], 0) % 2 = 0

\* the boundary kinds in the order of preference
Kinds == <<FenceNL, <<NL, NL>>, <<NL>>, <<SP>>>>

\* the places of a boundary of kind k in the first L characters of r that lie
\* past L/2
Qualifying(r, L, k) ==
    {i \in 0..(L - Len(Kinds[k])) : SubSeq(r, i + 1, i + Len(Kinds[k])) = Kinds[k] /\ 2 * i > L}

\* the cut the rule names: behind the last qualifying boundary of the first
\* kind that has one, at L when no kind has one
RuleCut(r, L) ==
    LET found == {k \in 1..4 : Qualifying(r, L, k) # {}} IN
    IF found = {} THEN L
    ELSE Max(Qualifying(r, L, Lowest(found))) + Len(Kinds[Lowest(found)])

\* the text has its only line break as character number p, and no backtick
OneLineBreakAt(text, p) ==
    /\ p \in DOMAIN text
    /\ \A j \in DOMAIN text : (text[j] = NL <=> j = p) /\ text[j] # BQ

\* C18: a remaining text longer than L is cut behind the last boundary past L/2
\* of the first kind that has one, in the order fence, blank line, line, word,
\* and at L when there is none.  A text longer than L whose only line break is
\* its p-th character, past L/2 and within L, without fences, gives a first
\* chunk of p characters.
C18_SplitOrder ==
    /\ chunker.split_point > 0
         => chunker.split_point = RuleCut(chunker.before, chunker.limit)
    /\ \A p \in 1..chunker.limit :
         (/\ Len(chunker.chunks) >= 1
          /\ Len(chunker.text) > chunker.limit
          /\ 2 * (p - 1) > chunker.limit
          /\ OneLineBreakAt(chunker.text, p))
         => Len(chunker.chunks[1]) = p

\* C18 witness: the first cut was made behind the only line break of a text
\* longer than the limit, short of the limit
C18_Witness ==
    /\ Len(chunker.chunks) >= 1
    /\ Len(chunker.text) > chunker.limit
    /\ chunker.chunks[1] # << >>
    /\ Len(chunker.chunks[1]) < chunker.limit
    /\ 2 * (Len(chunker.chunks[1]) - 1) > chunker.limit
    /\ OneLineBreakAt(chunker.text, Len(chunker.chunks[1]))

\* C19: a non-empty text of at most L characters is returned as one chunk,
\* unchanged.
C19_ShortTextOneChunk ==
    (chunker.pc = "done" /\ chunker.text # << >> /\ Len(chunker.text) <= chunker.limit)
    => chunker.chunks = <<chunker.text>>

\* C19 witness: a text of exactly L characters that ends in whitespace has
\* been returned as it is
C19_Witness ==
    /\ chunker.pc = "done"
    /\ Len(chunker.text) = chunker.limit
    /\ chunker.text[Len(chunker.text)] \in Whitespace
    /\ chunker.chunks = <<chunker.text>>

\* ---- claims about OutputBuffer ------------------------------------------------------

\* C20: a feed after which the screen content is what it was after the feed
\* before (no new bytes, or bytes that change nothing) returns an empty
\* content delta.
C20_SameContentEmptyDelta ==
    (buffer.fed > 0 /\ buffer.screen = buffer.before) => buffer.content = << >>

\* C20 witness: a second feed has left a non-empty screen as it was and has
\* returned an empty delta
C20_Witness ==
    /\ buffer.fed >= 2
    /\ buffer.screen # << >>
    /\ buffer.screen = buffer.before
    /\ buffer.content = << >>

\* C21: a feed after which the screen content is a strict extension of the
\* content after the feed before returns exactly the appended suffix, with
\* the whitespace and newlines the suffix begins or ends with.
C21_ExtensionDeltaIsSuffix ==
    (/\ buffer.fed > 0
     /\ startswith(buffer.screen, buffer.before)
     /\ Len(buffer.screen) > Len(buffer.before))
    => buffer.content = Suffix(buffer.screen, Len(buffer.before))

\* C22: a feed after which the screen content does not begin with the content
\* after the feed before returns the entire new content, and the buffer
\* remembers the new content.
C22_NoPrefixDeltaIsAll ==
    (buffer.fed > 0 /\ ~startswith(buffer.screen, buffer.before))
    => (buffer.content = buffer.screen /\ buffer._last_content = buffer.screen)

\* the row holds a keyword at some place, whatever the case of its letters
HasKeyword(row) ==
    \E k \in Keywords, i \in 1..Len(row) :
        /\ i + Len(k) - 1 <= Len(row)
        /\ \A j \in 1..Len(k) : lower_char(row[i + j - 1]) = k[j]

\* C23: get_statusbar returns a status line if and only if the last row of
\* the screen holds one of the keywords, in whatever case, and then it returns
\* that row, without the blanks around it; with no keyword in that row it
\* returns no status.
C23_StatusIffKeyword ==
    emulator.pc = "asked"
    => LET row == emulator.display[Len(emulator.display)] IN
       /\ emulator.statusbar # << >> <=> HasKeyword(row)
       /\ HasKeyword(row) => emulator.statusbar = <<strip(row)>>

\* C23 witness: a status line was returned for a last row that holds a keyword
\* partly in upper case, with blanks around it, and the row above holds none
C23_Witness ==
    /\ emulator.pc = "asked"
    /\ emulator.statusbar = <<<<"o", "p", "U", "S">>>>
    /\ ~HasKeyword(emulator.display[1])
    /\ Len(emulator.display[Len(emulator.display)]) > 4
    /\ contains(emulator.display[Len(emulator.display)], <<"o", "p", "U", "S">>)

\* ---- claims about PTYSession ----------------------------------------------------------

\* C24: write / write_line called on a transport that was never started, has
\* been terminated or whose child has exited fails with the not-active error,
\* sends no bytes and leaves last_activity as it is; a write succeeds only
\* when it found the transport running.
C24_WriteNeedsRunning ==
    /\ [][(pty'.n = pty.n + 1 /\ pty'.op = "write" /\ State(pty) # "running")
           => (/\ pty'.wres = "not active"
               /\ ~pty'.writing
               /\ pty'.sent = pty.sent
               /\ pty'.last_activity = pty.last_activity)]_vars
    /\ [](pty.wres = "ok" => pty.wat = "running")

\* C24 witness: a write on a transport whose child has exited has failed with
\* the not-active error, after an earlier write had sent its bytes
C24_Witness ==
    /\ pty.op = "write" /\ pty.wat = "crashed" /\ pty.wres = "not active"
    /\ pty.sent = 1

\* C25: over any sequence of terminate calls, the one of __del__ and those on
\* a transport never started or crashed included, the master descriptor is
\* closed at most once; after a call it is closed if it was ever opened, the
\* child does not run, and the call has not raised.
C25_TerminateOnce ==
    /\ pty.closes <= 1
    /\ pty.op \in {"terminate", "__del__"}
         => (/\ pty.res = "ok"
             /\ pty.child # "running"
             /\ pty.master_fd = -1
             /\ pty.opened => pty.closes = 1)

\* C25 witness: __del__ has called terminate on a transport that was running
\* when terminate was called before, and the descriptor was closed once
C25_Witness ==
    /\ pty.op = "__del__" /\ pty.at = "terminated"
    /\ pty.child = "killed"
    /\ pty.closes = 1

\* the read_stream generator has been started and has not ended
Streaming == pty.gen \in {"test", "select", "yield"}

\* a stop condition of read_stream holds: the child does not run, or no data
\* has arrived for longer than idle_timeout
StopCondition == ~pty_is_alive(pty) \/ pty.quiet > IdleTimeout

Events(lines) ==
    LET wf == SelectSeq(lines, LAMBDA l : l.kind \in {"assistant", "result"}) IN
    [i \in 1..Len(wf) |-> StreamEvent(wf[i].kind, wf[i])]

\* C27: a line of stdout that cannot be turned into an event is dropped and
\* the stream goes on: when the request is over, the events yielded from
\* stdout are the events of all well-formed lines the child has written, in
\* order, whatever malformed lines stand between them.
C27_MalformedLinesDropped ==
    (stream.pc = "ready" /\ stream.n > 0)
        => SelectSeq(stream.yielded, LAMBDA e : e.type # "error") = Events(stream.stdout)

\* C28: the totals of the session are the sums of the token counts and the
\* cost over all result events the session has received, with or without a
\* session id, and no step makes a total smaller.
C28_TotalsAreSums ==
    /\ [](/\ stream.total_input_tokens = stream.received.input_tokens
          /\ stream.total_output_tokens = stream.received.output_tokens
          /\ stream.total_cost_usd = stream.received.cost_usd)
    /\ [][/\ stream'.total_input_tokens >= stream.total_input_tokens
          /\ stream'.total_output_tokens >= stream.total_output_tokens
          /\ stream'.total_cost_usd >= stream.total_cost_usd]_vars

\* C29: the first request is spawned without a continuation argument, every
\* later request with the session id of the most recent result event that
\* carried one (none if there was none), and the stored id is at any time the
\* most recent one received: nothing clears it.
C29_ContinuationKept ==
    /\ [][stream'.n = stream.n + 1
            => /\ stream'.cmd = stream.received.session_id
               /\ (stream.n = 0 => stream'.cmd = << >>)]_vars
    /\ [](stream.session_id = stream.received.session_id)

\* C29 witness: the second request has been spawned with the id the first
\* request received, which brought two results, one of them without an id
C29_Witness ==
    /\ stream.n = 2 /\ stream.cmd = <<1>> /\ stream.pc = "reading"
    /\ stream.received.input_tokens = 2
    /\ stream.yielded = << >>

\* ---- claims about StreamBuffer and StreamOutputFormatter --------------------------------

\* the formatter has just been fed an assistant event
FedAssistant ==
    /\ formatter.op = "feed"
    /\ formatter.event[1].type = "assistant"

\* C30 as stated: feeding an assistant event, whatever its text and whatever
\* the delta buffer holds, returns the text of the event and leaves the delta
\* buffer empty.
C30_AssistantReplacesDeltas ==
    FedAssistant
        => /\ formatter.content = <<formatter.event[1].content>>
           /\ formatter._content_buffer = << >>

\* C30, amended: feeding an assistant event that carries text, whatever the
\* delta buffer holds, returns that text whole, as the chunk after the tool
\* notice if there is one, and leaves the delta buffer empty; an assistant
\* event without text returns no text and leaves the delta buffer as it is.
C30_AssistantTextReplacesDeltas ==
    FedAssistant
        => LET event == formatter.event[1] IN
           IF event.content # << >>
           THEN /\ formatter.content = <<event.content>>
                /\ formatter.chunks = format_tool_use(event) \o <<event.content>>
                /\ formatter._content_buffer = << >>
           ELSE /\ formatter.content = << >>
                /\ formatter.chunks = format_tool_use(event)
                /\ formatter._content_buffer = formatter.before

\* C30 witness: an assistant event with the text "ab" has been fed while the
\* delta buffer held "ba"; "ab" is returned and the buffer is empty
C30_Witness ==
    /\ FedAssistant
    /\ formatter.event[1].content = <<"a", "b">>
    /\ formatter.before = <<"b", "a">>
    /\ formatter.chunks = <<<<"a", "b">>>>
    /\ formatter._content_buffer = << >>

\* the formatter has just been fed an event of the type
Fed(type) ==
    /\ formatter.op = "feed"
    /\ formatter.event[1].type = type

C32_ResultFlushesAndSetsStatus ==
    Fed("result")
        => LET event == formatter.event[1] IN
           /\ formatter.chunks = IF formatter.before = << >> THEN << >>
                                  ELSE <<formatter.before>>
           /\ formatter._content_buffer = << >>
           /\ formatter.status.model = event.model
           /\ formatter.status.input_tokens = event.input_tokens
           /\ formatter.status.output_tokens = event.output_tokens
           /\ formatter.status.cost_usd = event.cost_usd
           /\ formatter.status.session_id = event.session_id

\* C32 witness: a result event with metadata has been fed while text was
\* pending; the text has been returned and the status carries the metadata
C32_Witness ==
    /\ Fed("result")
    /\ formatter.before = <<"a", "b">>
    /\ formatter.chunks = <<<<"a", "b">>>>
    /\ formatter.status.session_id = <<1>>
    /\ formatter.status.input_tokens = 1

\* C33: feeding an error event returns the error text behind the error
\* marker, whatever the buffer holds, and leaves the pending delta buffer as
\* it was.
C33_ErrorBypassesBuffer ==
    Fed("error")
        => /\ formatter.chunks = <<<<"**Error:** ">> \o formatter.event[1].content>>
           /\ formatter._content_buffer = formatter.before

\* C33 witness: an error event has been fed while text was pending, the
\* marked text has been returned and the pending text is still there
C33_Witness ==
    /\ Fed("error")
    /\ formatter.before = <<"a", "b">>
    /\ formatter.event[1].content = <<"b">>
    /\ formatter.chunks = <<<<"**Error:** ", "b">>>>
    /\ formatter._content_buffer = <<"a", "b">>

\* ---- claims about the sandbox builder ------------------------------------------------------

\* C34: a call of get_bwrap_command or setup_sandbox spawns no process, and
\* the only thing it may change on the host is that the workspace directory of
\* its user comes to exist.
C34_BuilderOnlyComposes ==
    [][sandbox'.n = sandbox.n + 1
         => /\ sandbox'.spawned = sandbox.spawned
            /\ sandbox'.dirs \subseteq sandbox.dirs \cup {<<sandbox'.user>>}
            /\ sandbox.dirs \subseteq sandbox'.dirs]_vars

\* C35: while a PTY session is in the table (its transport has not been
\* terminated), its child is alive and it is not idle-expired, its output read
\* loop is running, however long the child has been silent before.
C35_ReadLoopRuns ==
    (/\ pty.loop # "none" /\ pty.closes = 0
     /\ pty_is_alive(pty) /\ ~session_is_expired(pty))
        => pty.loop = "running"

\* ---- claims about delivery ------------------------------------------------------------

\* C11: the chunks of one user are posted to the channel in the order in which
\* they were produced: no chunk of an earlier callback invocation is posted
\* after a chunk of a later one.
C11_ChunksInOrder ==
    \A i, j \in DOMAIN channel : i < j => channel[i].task <= channel[j].task

\* C12: an exception raised by the callback for one piece of output does not
\* end the delivery: every piece of output of the request, the final flush
\* included, is offered to the callback, and no exception leaves the task.
C12_CallbackErrorsIsolated ==
    /\ request.pc # "escaped"
    /\ request.cb => request.offered = request.produced

\* C36: after stop_session(u) has returned, the output callback that was
\* registered for u is not invoked again, also not by the background task of a
\* request that was in flight when stop_session was called and had read the
\* callback from the table before.  offered counts the invocations the task
\* makes for output; the invocation with an error text follows one of these.
C36_NoCallbackAfterStop ==
    [][request.stopped => request'.offered = request.offered]_vars

\* C37: when send_message(u, m) has returned True and the response to m is not
\* finished, cancel_request(u) returns True and the request spawns no process
\* and delivers no output from then on, also between the return of
\* send_message and the spawn.  A request is unfinished while its task is not
\* done; a task marked by task.cancel() takes no step but TaskCancelled.
C37_CancelStopsRequest ==
    last.op = "cancel_request"
    => \A t \in TaskIds :
          (tasks[t].user = last.user /\ tasks[t].pc # "done")
          => (last.res = "True" /\ tasks[t].cancelReq)

\* C38: while the output task of a session runs, every non-empty content the
\* callback has enqueued is sent: _process_output_queue neither clears
\* buffered text nor takes an item from the queue without sending its
\* content, also when the wait for the queue times out.  Whatever a step of
\* the task finds in the buffer or takes from the head of the queue is, after
\* the step, among what has been sent or still in the buffer.
C38_QueuedContentIsSent ==
    [][(bot.pc \in {"get", "timeout"} /\ bot'.pc \in {"get", "timeout"})
        => LET taken == IF Len(bot'.queue) < Len(bot.queue) /\ Head(bot.queue).content
                        THEN <<Head(bot.queue).item>> ELSE << >> IN
           bot'.sent \o bot'.buffer = bot.sent \o bot.buffer \o taken]_vars

\* C39: chunk_for_discord terminates for every text and every limit > 0: an
\* iteration of its loop that is followed by another leaves a remaining text
\* strictly shorter than it found, also when it prepends the re-opening fence
\* to the remainder.
C39_RemainingShrinks ==
    [][(chunker.pc = "loop" /\ chunker'.pc = "loop")
        => Len(chunker'.remaining) < Len(chunker.remaining)]_vars

\* C40: when the manager's stop() has returned, the sweep task is not running,
\* the session table is empty, and no child process started through the
\* manager is still running, the children of requests that were in flight
\* when stop() was called included.
C40_StopLeavesNothing ==
    (last.op = "stop" /\ last.res = "ok")
    => (/\ sweep.pc = "stopped"
        /\ \A u \in UserIds : sessions[u] = None
        /\ \A t \in TaskIds : tasks[t].proc \notin {"running", "eof"}
        /\ \A s \in DOMAIN ptys : ~ptys[s].alive)

==============================================================================
